---- MODULE Spec2Model ----
(***************************************************************************)
(* Model of the json-parser library: the JsonValue tree, the recursive     *)
(* descent Parser and the serializer JsonValue::dump.                      *)
(*                                                                         *)
(* Text is a sequence of bytes (0..255).  The parser cursor pos_ is the    *)
(* 0-based byte offset of the code, so input_[pos_] is input[pos + 1].     *)
(* A C++ call that may throw is an operator returning a result record:     *)
(* ok = TRUE with the cursor after the call and the returned value, or     *)
(* ok = FALSE with the kind of the exception, its message and, for a       *)
(* ParseError, its position().                                             *)
(***************************************************************************)
EXTENDS Integers, Sequences, FiniteSets, TLC

VARIABLES
    toks,               \* the tokens the caller's text is made of (history of how input was chosen)
    text,               \* the text handed to json::parse
    erange_underflow,   \* the build: does strtod set ERANGE when the result underflows
    pc,                 \* "start", "parsed", "dumped", "reparsed"
    res,                \* the outcome of json::parse(text)
    dump_indent,        \* the argument of dump
    dumped,             \* the text dump returned
    res2,               \* the outcome of json::parse(dumped)
    heap,               \* the containers that unique_ptrs of JsonValues own, by address
    va,                 \* JsonValue va of the caller
    vb,                 \* JsonValue vb of the caller
    ret,                \* the last call on va or vb and its outcome
    vpc,                \* where the caller of va and vb is: "constructed", "moved", "copied",
                        \* "mutated", "read", or "undefined" after undefined behaviour
    pos_,               \* Parser::pos_, the cursor of the parser that is running on text
    stack,              \* the calls of Parser member functions in progress, innermost last
    thrown,             \* the exception that has left the parser, NoResult while there is none
    steps               \* the number of steps the parser has taken on text

parser_vars == <<toks, text, erange_underflow, pc, res, dump_indent, dumped, res2>>
value_vars == <<heap, va, vb, ret, vpc>>
cursor_vars == <<pos_, stack, thrown, steps>>
vars == <<toks, text, erange_underflow, pc, res, dump_indent, dumped, res2,
          heap, va, vb, ret, vpc, pos_, stack, thrown, steps>>

(***************************************************************************)
(* Bytes.  Code maps the name of a character to its ASCII code.            *)
(***************************************************************************)
Printable ==
    << " ", "!", "\"", "#", "$", "%", "&", "'", "(", ")", "*", "+", ",", "-", ".", "/",
       "0", "1", "2", "3", "4", "5", "6", "7", "8", "9", ":", ";", "<", "=", ">", "?",
       "@", "A", "B", "C", "D", "E", "F", "G", "H", "I", "J", "K", "L", "M", "N", "O",
       "P", "Q", "R", "S", "T", "U", "V", "W", "X", "Y", "Z", "[", "\\", "]", "^", "_",
       "BQ", "a", "b", "c", "d", "e", "f", "g", "h", "i", "j", "k", "l", "m", "n", "o",
       "p", "q", "r", "s", "t", "u", "v", "w", "x", "y", "z", "{", "|", "}", "~" >>

Control ==
    << "NUL", "SOH", "STX", "ETX", "EOT", "ENQ", "ACK", "BEL", "BS", "TAB", "LF",
       "VT", "FF", "CR" >>

Code ==
    [ c \in {Printable[i] : i \in 1..Len(Printable)} \cup {Control[i] : i \in 1..Len(Control)} |->
        IF \E i \in 1..Len(Control) : Control[i] = c
        THEN (CHOOSE i \in 1..Len(Control) : Control[i] = c) - 1
        ELSE (CHOOSE i \in 1..Len(Printable) : Printable[i] = c) + 31 ]

\* the one-character string of a printable byte, used in error messages
CharStr(c) == Printable[c - 31]

\* a text written as a tuple of character names
Txt(names) == [i \in 1..Len(names) |-> Code[names[i]]]

\* <cctype>, "C" locale
isdigit(c) == c \in Code["0"]..Code["9"]
isxdigit(c) == isdigit(c) \/ c \in Code["a"]..Code["f"] \/ c \in Code["A"]..Code["F"]
isspace(c) == c \in {Code[" "], Code["TAB"], Code["LF"], Code["VT"], Code["FF"], Code["CR"]}

Min(a, b) == IF a < b THEN a ELSE b

\* F applied to the value of v: "auto x = v; F(x)"
Bind(v, F(_)) == F(v)

RECURSIVE Pow10(_)
Pow10(k) == IF k <= 0 THEN 1 ELSE 10 * Pow10(k - 1)

(***************************************************************************)
(* JsonValue: value_ is a variant over six alternatives.  An object is the *)
(* set of the (key, value) entries of its unordered_map, keys unique.      *)
(* A number is the double m * 10^e (m has no trailing zero; see stod).     *)
(***************************************************************************)
JsonValue_null == [type |-> "null"]
JsonValue_bool(b) == [type |-> "bool", b |-> b]
JsonValue_number(n) == [type |-> "number", n |-> n]
JsonValue_string(s) == [type |-> "string", s |-> s]
JsonValue_array(arr) == [type |-> "array", a |-> arr]
JsonValue_object(obj) == [type |-> "object", o |-> obj]

is_null(v) == v.type = "null"
is_bool(v) == v.type = "bool"
is_number(v) == v.type = "number"
is_string(v) == v.type = "string"
is_array(v) == v.type = "array"
is_object(v) == v.type = "object"

(***************************************************************************)
(* Results of calls that may throw.                                        *)
(***************************************************************************)
Ok(pos, val) ==
    [ok |-> TRUE, pos |-> pos, val |-> val, kind |-> "none", msg |-> "", position |-> 0]

\* throw ParseError(msg, position) with the cursor at pos
ParseError(msg, position, pos) ==
    [ok |-> FALSE, pos |-> pos, val |-> JsonValue_null, kind |-> "ParseError",
     msg |-> msg, position |-> position]

\* an exception of the standard library that is not a ParseError
StdError(kind, msg, pos) ==
    [ok |-> FALSE, pos |-> pos, val |-> JsonValue_null, kind |-> kind,
     msg |-> msg, position |-> 0]

(***************************************************************************)
(* Parser helpers                                                          *)
(***************************************************************************)
peek(input, pos) == IF pos >= Len(input) THEN Code["NUL"] ELSE input[pos + 1]

consume(input, pos) ==
    IF pos >= Len(input)
    THEN ParseError("unexpected end of input", pos, pos)
    ELSE Ok(pos + 1, input[pos + 1])

RECURSIVE skip_whitespace(_, _)
skip_whitespace(input, pos) ==
    IF pos < Len(input) /\ isspace(input[pos + 1])
    THEN skip_whitespace(input, pos + 1)
    ELSE pos

\* expect, were it to report the cursor after the character it has consumed
expect_at_cursor(input, pos, c) ==
    Bind(consume(input, pos), LAMBDA r :
        IF ~r.ok THEN r
        ELSE IF r.val # c
             THEN ParseError("expected '" \o CharStr(c) \o "'", r.pos, r.pos)
             ELSE Ok(r.pos, c))

expect(input, pos, c) ==
    Bind(consume(input, pos), LAMBDA r :
        IF ~r.ok THEN r
        ELSE IF r.val # c
             THEN ParseError("expected '" \o CharStr(c) \o "'", r.pos - 1, r.pos)
             ELSE Ok(r.pos, c))

\* input_.substr(pos, n)
substr(input, pos, n) == SubSeq(input, pos + 1, Min(pos + n, Len(input)))

parse_null(input, pos) ==
    IF substr(input, pos, 4) = Txt(<<"n", "u", "l", "l">>)
    THEN Ok(pos + 4, JsonValue_null)
    ELSE ParseError("expected 'null'", pos, pos)

parse_bool(input, pos) ==
    IF substr(input, pos, 4) = Txt(<<"t", "r", "u", "e">>)
    THEN Ok(pos + 4, JsonValue_bool(TRUE))
    ELSE IF substr(input, pos, 5) = Txt(<<"f", "a", "l", "s", "e">>)
         THEN Ok(pos + 5, JsonValue_bool(FALSE))
         ELSE ParseError("expected 'true' or 'false'", pos, pos)

(***************************************************************************)
(* double.  A JsonNumber is modelled by the decimal it was converted from: *)
(* [neg, m, e] stands for (-1)^neg * m * 10^e, m without a trailing zero   *)
(* (m = 0 has e = 0; neg keeps the sign of -0.0).  Two decimals of at most *)
(* 15 significant digits are equal exactly when the doubles nearest to     *)
(* them are, so within the digit bounds of the model this is the identity  *)
(* of doubles.  The range of double is the IEEE 754 binary64 one.          *)
(***************************************************************************)
DBL_MAX_10_EXP == 308
\* the first seven significant digits of DBL_MAX = 1.7976931348623157e308
DBL_MAX_LEAD == 1797693
DBL_MIN_10_EXP == -308
\* the first seven significant digits of DBL_MIN = 2.2250738585072014e-308, rounded up
DBL_MIN_LEAD == 2225074
\* below 10^DBL_TRUE_MIN_10_EXP every decimal rounds to zero (denorm_min = 4.9e-324)
DBL_TRUE_MIN_10_EXP == -324
\* std::ios_base::precision() of a fresh std::ostringstream
OSS_PRECISION == 6

RECURSIVE NumDigits(_)
NumDigits(m) == IF m < 10 THEN 1 ELSE 1 + NumDigits(m \div 10)

RECURSIVE Normalize(_, _, _)
Normalize(neg, m, e) ==
    IF m = 0 THEN [neg |-> neg, m |-> 0, e |-> 0]
    ELSE IF m % 10 = 0 THEN Normalize(neg, m \div 10, e + 1)
    ELSE [neg |-> neg, m |-> m, e |-> e]

\* the decimal exponent of the leading digit: |x| = d.ddd * 10^SciExp(x)
SciExp(x) == x.e + NumDigits(x.m) - 1

\* the first seven significant digits of x as an integer
Lead7(x) ==
    IF NumDigits(x.m) <= 7
    THEN x.m * Pow10(7 - NumDigits(x.m))
    ELSE x.m \div Pow10(NumDigits(x.m) - 7)

\* operator== of double: -0.0 == 0.0
DoubleEq(x, y) == (x.m = 0 /\ y.m = 0) \/ x = y

RECURSIVE DigitsToInt(_)
DigitsToInt(ds) ==
    IF ds = <<>> THEN 0
    ELSE 10 * DigitsToInt(SubSeq(ds, 1, Len(ds) - 1)) + (ds[Len(ds)] - Code["0"])

\* the least index i >= 1 with s[i] in cs, or Len(s) + 1
FirstIn(s, cs) ==
    IF \E i \in 1..Len(s) : s[i] \in cs
    THEN CHOOSE i \in 1..Len(s) : s[i] \in cs /\ \A j \in 1..(i - 1) : s[j] \notin cs
    ELSE Len(s) + 1

\* the value of the exponent part (what follows e or E) of a number token
exponent_value(expPart) ==
    IF expPart = <<>> THEN 0
    ELSE IF expPart[1] = Code["-"] THEN 0 - DigitsToInt(Tail(expPart))
    ELSE IF expPart[1] = Code["+"] THEN DigitsToInt(Tail(expPart))
    ELSE DigitsToInt(expPart)

\* the decimal a number token (already scanned by parse_number) denotes
strtod(num_str) ==
    Bind(num_str[1] = Code["-"], LAMBDA neg :
    Bind(IF neg THEN Tail(num_str) ELSE num_str, LAMBDA u :
    Bind(FirstIn(u, {Code["e"], Code["E"]}), LAMBDA ePos :
    Bind(SubSeq(u, 1, ePos - 1), LAMBDA mant :
    Bind(FirstIn(mant, {Code["."]}), LAMBDA dot :
    Bind(SubSeq(mant, dot + 1, Len(mant)), LAMBDA fracDigits :
        Normalize(neg,
                  DigitsToInt(SubSeq(mant, 1, dot - 1) \o fracDigits),
                  exponent_value(SubSeq(u, ePos + 1, Len(u))) - Len(fracDigits))))))))

overflows(x) ==
    x.m # 0 /\ (\/ SciExp(x) > DBL_MAX_10_EXP
                \/ SciExp(x) = DBL_MAX_10_EXP /\ Lead7(x) > DBL_MAX_LEAD)

underflows(x) ==
    x.m # 0 /\ (\/ SciExp(x) < DBL_MIN_10_EXP
                \/ SciExp(x) = DBL_MIN_10_EXP /\ Lead7(x) < DBL_MIN_LEAD)

(***************************************************************************)
(* std::stod(num_str) on a token that parse_number has scanned: strtod     *)
(* converts the whole token; a result out of the range of double sets      *)
(* ERANGE and stod throws std::out_of_range.  Overflow always sets ERANGE; *)
(* whether a result that underflows does is implementation-defined, and    *)
(* erange_underflow says what the C library of the build does.             *)
(***************************************************************************)
stod(num_str, pos) ==
    Bind(strtod(num_str), LAMBDA x :
        IF overflows(x) THEN StdError("std::out_of_range", "stod", pos)
        ELSE IF underflows(x) /\ erange_underflow
             THEN StdError("std::out_of_range", "stod", pos)
        ELSE IF underflows(x) /\ SciExp(x) < DBL_TRUE_MIN_10_EXP
             THEN Ok(pos, [neg |-> x.neg, m |-> 0, e |-> 0])
        ELSE Ok(pos, x))

\* while(std::isdigit(peek())) ++pos_;
RECURSIVE skip_digits(_, _)
skip_digits(input, pos) ==
    IF isdigit(peek(input, pos)) THEN skip_digits(input, pos + 1) ELSE pos

\* the end of parse_number: num_str = input_.substr(start, pos_-start); stod(num_str)
number_value(input, start, pos) ==
    Bind(stod(substr(input, start, pos - start), pos), LAMBDA r :
        IF r.ok THEN Ok(pos, JsonValue_number(r.val)) ELSE r)

\* parse_number from "handle exponents" on
number_exponent(input, start, pos) ==
    IF peek(input, pos) \in {Code["e"], Code["E"]}
    THEN Bind(IF peek(input, pos + 1) \in {Code["+"], Code["-"]} THEN pos + 2 ELSE pos + 1,
              LAMBDA p :
                 IF ~isdigit(peek(input, p)) THEN ParseError("invalid number", p, p)
                 ELSE number_value(input, start, skip_digits(input, p)))
    ELSE number_value(input, start, pos)

\* parse_number from "handle decimal point" on
number_fraction(input, start, pos) ==
    IF peek(input, pos) = Code["."]
    THEN IF ~isdigit(peek(input, pos + 1))
         THEN ParseError("invalid number", pos + 1, pos + 1)
         ELSE number_exponent(input, start, skip_digits(input, pos + 1))
    ELSE number_exponent(input, start, pos)

\* parse_number after the leading sign
number_integer(input, start, pos) ==
    IF peek(input, pos) = Code["0"] THEN number_fraction(input, start, pos + 1)
    ELSE IF isdigit(peek(input, pos))
         THEN number_fraction(input, start, skip_digits(input, pos))
         ELSE ParseError("invalid number", pos, pos)

parse_number(input, pos) ==
    number_integer(input, pos, IF peek(input, pos) = Code["-"] THEN pos + 1 ELSE pos)

(***************************************************************************)
(* Strings                                                                 *)
(***************************************************************************)
simple_escapes ==
    {Code["\""], Code["\\"], Code["/"], Code["n"], Code["r"], Code["t"], Code["b"], Code["f"]}

\* a faulty escape switch: appends the escape letter itself
escape_char_letter(escape) == escape

\* the character a one-letter escape appends to str
escape_char(escape) ==
    CASE escape = Code["\""] -> Code["\""]
      [] escape = Code["\\"] -> Code["\\"]
      [] escape = Code["/"] -> Code["/"]
      [] escape = Code["n"] -> Code["LF"]
      [] escape = Code["r"] -> Code["CR"]
      [] escape = Code["t"] -> Code["TAB"]
      [] escape = Code["b"] -> Code["BS"]
      [] escape = Code["f"] -> Code["FF"]

hex_digit(c) ==
    IF isdigit(c) THEN c - Code["0"]
    ELSE IF c \in Code["a"]..Code["f"] THEN c - Code["a"] + 10
    ELSE c - Code["A"] + 10

\* std::stoi(hex, nullptr, 16)
RECURSIVE stoi16(_)
stoi16(hex) ==
    IF hex = <<>> THEN 0
    ELSE 16 * stoi16(SubSeq(hex, 1, Len(hex) - 1)) + hex_digit(hex[Len(hex)])

\* the encoding, were every code point from 0x80 on written in two bytes
utf8_encode_two(codepoint) ==
    IF codepoint < 128 THEN <<codepoint>>
    ELSE <<192 + ((codepoint \div 64) % 32), 128 + (codepoint % 64)>>

\* the bytes appended for a code point, each static_cast<char>(..) kept as 0..255
utf8_encode(codepoint) ==
    IF codepoint < 128 THEN <<codepoint>>
    ELSE IF codepoint < 2048
         THEN <<192 + (codepoint \div 64), 128 + (codepoint % 64)>>
         ELSE <<224 + (codepoint \div 4096),
                128 + ((codepoint \div 64) % 64),
                128 + (codepoint % 64)>>

\* for(int i=0; i<4; ++i) { if(!isxdigit(peek())) throw ..; hex += consume(); }
RECURSIVE read_hex(_, _, _, _)
read_hex(input, pos, i, hex) ==
    IF i >= 4 THEN Ok(pos, hex)
    ELSE IF ~isxdigit(peek(input, pos))
         THEN ParseError("invalid unicode escape", pos, pos)
         ELSE read_hex(input, pos + 1, i + 1, Append(hex, input[pos + 1]))

RECURSIVE parse_string_loop(_, _, _)

\* case 'u' of the escape switch, the cursor after the u
unicode_escape(input, pos, str) ==
    Bind(read_hex(input, pos, 0, <<>>), LAMBDA h :
        IF ~h.ok THEN h
        ELSE parse_string_loop(input, h.pos, str \o utf8_encode(stoi16(h.val))))

\* a faulty escape branch: end of input after the backslash reported by the loop's message
string_escape_unterminated(input, pos, str) ==
    Bind(consume(input, pos + 1), LAMBDA r :
        IF ~r.ok THEN ParseError("unterminated string", r.pos, r.pos)
        ELSE IF r.val \in simple_escapes
             THEN parse_string_loop(input, r.pos, Append(str, escape_char(r.val)))
        ELSE IF r.val = Code["u"] THEN unicode_escape(input, r.pos, str)
        ELSE ParseError("invalid escape sequence", r.pos - 1, r.pos))

\* the escape branch of the loop of parse_string, the cursor on the backslash
string_escape(input, pos, str) ==
    Bind(consume(input, pos + 1), LAMBDA r :
        IF ~r.ok THEN r
        ELSE IF r.val \in simple_escapes
             THEN parse_string_loop(input, r.pos, Append(str, escape_char(r.val)))
        ELSE IF r.val = Code["u"] THEN unicode_escape(input, r.pos, str)
        ELSE ParseError("invalid escape sequence", r.pos - 1, r.pos))

\* while(peek() != '"') { .. } expect('"'); return JsonValue(std::move(str));
parse_string_loop(input, pos, str) ==
    IF peek(input, pos) = Code["\""]
    THEN Bind(expect(input, pos, Code["\""]), LAMBDA q :
             IF q.ok THEN Ok(q.pos, JsonValue_string(str)) ELSE q)
    ELSE IF peek(input, pos) = Code["NUL"]
    THEN ParseError("unterminated string", pos, pos)
    ELSE IF peek(input, pos) = Code["\\"]
    THEN string_escape(input, pos, str)
    ELSE parse_string_loop(input, pos + 1, Append(str, input[pos + 1]))

parse_string(input, pos) ==
    Bind(expect(input, pos, Code["\""]), LAMBDA q :
        IF q.ok THEN parse_string_loop(input, q.pos, <<>>) ELSE q)

(***************************************************************************)
(* Arrays, objects, values                                                 *)
(***************************************************************************)
\* a faulty insertion: at the front
push_front(arr, v) == <<v>> \o arr

\* arr.push_back(v)
push_back(arr, v) == Append(arr, v)

\* a faulty insertion: obj.emplace(key, value), which keeps an existing entry
obj_emplace(obj, key, value) ==
    IF \E en \in obj : en.k = key THEN obj ELSE obj \cup {[k |-> key, v |-> value]}

\* obj[std::move(key)] = std::move(value)
obj_assign(obj, key, value) ==
    {en \in obj : en.k # key} \cup {[k |-> key, v |-> value]}

RECURSIVE parse_value(_, _)
RECURSIVE parse_array_loop(_, _, _)
RECURSIVE parse_object_loop(_, _, _)

\* a faulty separator step: a ']' right after the comma ends the array
array_next_lenient(input, pos, arr) ==
    IF peek(input, pos) = Code["]"]
    THEN Ok(pos + 1, JsonValue_array(arr))
    ELSE Bind(expect(input, pos, Code[","]), LAMBDA c :
             IF ~c.ok THEN c
             ELSE IF peek(input, skip_whitespace(input, c.pos)) = Code["]"]
                  THEN Ok(skip_whitespace(input, c.pos) + 1, JsonValue_array(arr))
                  ELSE parse_array_loop(input, skip_whitespace(input, c.pos), arr))

\* parse_array after an element: ']' ends the array, else expect(',') and go on
array_next(input, pos, arr) ==
    IF peek(input, pos) = Code["]"]
    THEN Ok(pos + 1, JsonValue_array(arr))
    ELSE Bind(expect(input, pos, Code[","]), LAMBDA c :
             IF ~c.ok THEN c
             ELSE parse_array_loop(input, skip_whitespace(input, c.pos), arr))

\* one turn of while(true) in parse_array
parse_array_loop(input, pos, arr) ==
    Bind(parse_value(input, pos), LAMBDA r :
        IF ~r.ok THEN r
        ELSE array_next(input, skip_whitespace(input, r.pos), push_back(arr, r.val)))

parse_array(input, pos) ==
    Bind(expect(input, pos, Code["["]), LAMBDA b :
        IF ~b.ok THEN b
        ELSE Bind(skip_whitespace(input, b.pos), LAMBDA p :
                 IF peek(input, p) = Code["]"]
                 THEN Ok(p + 1, JsonValue_array(<<>>))
                 ELSE parse_array_loop(input, p, <<>>)))

\* parse_object after a member: '}' ends the object, else expect(',') and go on
object_next(input, pos, obj) ==
    IF peek(input, pos) = Code["}"]
    THEN Ok(pos + 1, JsonValue_object(obj))
    ELSE Bind(expect(input, pos, Code[","]), LAMBDA d :
             IF ~d.ok THEN d
             ELSE parse_object_loop(input, d.pos, obj))

\* parse_object after the key: expect(':'), the value, the assignment
object_member(input, pos, obj, key) ==
    Bind(expect(input, skip_whitespace(input, pos), Code[":"]), LAMBDA c :
        IF ~c.ok THEN c
        ELSE Bind(parse_value(input, c.pos), LAMBDA value :
                 IF ~value.ok THEN value
                 ELSE object_next(input, skip_whitespace(input, value.pos),
                                  obj_assign(obj, key, value.val))))

\* one turn of while(true) in parse_object
parse_object_loop(input, pos, obj) ==
    Bind(skip_whitespace(input, pos), LAMBDA p :
        IF peek(input, p) # Code["\""]
        THEN ParseError("expected string key", p, p)
        ELSE Bind(parse_string(input, p), LAMBDA key :
                 IF ~key.ok THEN key
                 ELSE object_member(input, key.pos, obj, key.val.s)))

parse_object(input, pos) ==
    Bind(expect(input, pos, Code["{"]), LAMBDA b :
        IF ~b.ok THEN b
        ELSE Bind(skip_whitespace(input, b.pos), LAMBDA p :
                 IF peek(input, p) = Code["}"]
                 THEN Ok(p + 1, JsonValue_object({}))
                 ELSE parse_object_loop(input, p, {})))

\* parse_value after skip_whitespace(), c = peek()
value_dispatch(input, pos, c) ==
    IF c = Code["n"] THEN parse_null(input, pos)
    ELSE IF c = Code["t"] \/ c = Code["f"] THEN parse_bool(input, pos)
    ELSE IF c = Code["\""] THEN parse_string(input, pos)
    ELSE IF c = Code["["] THEN parse_array(input, pos)
    ELSE IF c = Code["{"] THEN parse_object(input, pos)
    ELSE IF c = Code["-"] \/ isdigit(c) THEN parse_number(input, pos)
    ELSE ParseError("unexpected character", pos, pos)

parse_value(input, pos) ==
    Bind(skip_whitespace(input, pos), LAMBDA p : value_dispatch(input, p, peek(input, p)))

\* Parser(json).parse(), that is json::parse(json)
parse(json) ==
    Bind(parse_value(json, skip_whitespace(json, 0)), LAMBDA value :
        IF ~value.ok THEN value
        ELSE Bind(skip_whitespace(json, value.pos), LAMBDA p :
                 IF p # Len(json)
                 THEN ParseError("unexpected characters after JSON", p, p)
                 ELSE Ok(p, value.val)))

(***************************************************************************)
(* Serialization                                                           *)
(***************************************************************************)
RECURSIVE DecimalDigits(_)
\* the decimal digits of a natural number, as characters
DecimalDigits(n) ==
    IF n < 10 THEN <<Code["0"] + n>>
    ELSE Append(DecimalDigits(n \div 10), Code["0"] + (n % 10))

\* std::string(n, c)
Repeat(n, c) == [i \in 1..n |-> c]

\* m / unit rounded to the nearest integer, ties to even
round_half_even(m, unit) ==
    IF 2 * (m % unit) > unit \/ (2 * (m % unit) = unit /\ (m \div unit) % 2 = 1)
    THEN (m \div unit) + 1
    ELSE m \div unit

\* q1 significant digits at decimal exponent X, after a carry out of the rounding
rounded(q1, X) ==
    IF q1 = Pow10(OSS_PRECISION) THEN [q |-> 1, X |-> X + 1]
    ELSE [q |-> Normalize(FALSE, q1, 0).m, X |-> X]

\* x rounded to OSS_PRECISION significant digits: the digits q (no trailing zero)
\* and the decimal exponent X of the first of them
round_significant(x) ==
    IF NumDigits(x.m) <= OSS_PRECISION THEN [q |-> x.m, X |-> SciExp(x)]
    ELSE rounded(round_half_even(x.m, Pow10(NumDigits(x.m) - OSS_PRECISION)), SciExp(x))

\* d[.ddd]e+XX, the exponent with at least two digits
format_scientific(sig, X) ==
    <<sig[1]>>
    \o (IF Len(sig) > 1 THEN <<Code["."]>> \o Tail(sig) ELSE <<>>)
    \o <<Code["e"], IF X < 0 THEN Code["-"] ELSE Code["+"]>>
    \o (IF X > -10 /\ X < 10 THEN <<Code["0"]>> ELSE <<>>)
    \o DecimalDigits(IF X < 0 THEN 0 - X ELSE X)

format_fixed(sig, X) ==
    IF X >= 0
    THEN SubSeq(sig, 1, Min(Len(sig), X + 1)) \o Repeat(X + 1 - Len(sig), Code["0"])
         \o (IF Len(sig) > X + 1
             THEN <<Code["."]>> \o SubSeq(sig, X + 2, Len(sig)) ELSE <<>>)
    ELSE <<Code["0"], Code["."]>> \o Repeat((0 - X) - 1, Code["0"]) \o sig

(***************************************************************************)
(* oss << as_number(): operator<<(double) of a fresh ostringstream, that   *)
(* is printf("%g") with precision 6.  The value is rounded to 6            *)
(* significant digits (ties to even), printed in fixed notation when the   *)
(* decimal exponent X of the rounded value has -4 <= X < 6 and in          *)
(* scientific notation otherwise, trailing zeros removed.                  *)
(***************************************************************************)
ostream_double(x) ==
    (IF x.neg THEN <<Code["-"]>> ELSE <<>>)
    \o (IF x.m = 0 THEN <<Code["0"]>>
        ELSE Bind(round_significant(x), LAMBDA g :
                 IF g.X < -4 \/ g.X >= OSS_PRECISION
                 THEN format_scientific(DecimalDigits(g.q), g.X)
                 ELSE format_fixed(DecimalDigits(g.q), g.X)))

\* the switch, were it to write a backspace as an escape too
dump_char_backspace(c) ==
    CASE c = Code["\""] -> <<Code["\\"], Code["\""]>>
      [] c = Code["\\"] -> <<Code["\\"], Code["\\"]>>
      [] c = Code["LF"] -> <<Code["\\"], Code["n"]>>
      [] c = Code["CR"] -> <<Code["\\"], Code["r"]>>
      [] c = Code["TAB"] -> <<Code["\\"], Code["t"]>>
      [] c = Code["BS"] -> <<Code["\\"], Code["b"]>>
      [] OTHER -> <<c>>

\* what the switch of the string branch of dump_impl appends for c
dump_char(c) ==
    CASE c = Code["\""] -> <<Code["\\"], Code["\""]>>
      [] c = Code["\\"] -> <<Code["\\"], Code["\\"]>>
      [] c = Code["LF"] -> <<Code["\\"], Code["n"]>>
      [] c = Code["CR"] -> <<Code["\\"], Code["r"]>>
      [] c = Code["TAB"] -> <<Code["\\"], Code["t"]>>
      [] OTHER -> <<c>>

RECURSIVE dump_string(_)
\* for(char c : as_string()) switch(c) ..
dump_string(str) ==
    IF str = <<>> THEN <<>> ELSE dump_char(str[1]) \o dump_string(Tail(str))

(***************************************************************************)
(* The iteration order of std::unordered_map is unspecified.  ord is a     *)
(* sequence holding every key once; an object is iterated in the order its *)
(* keys have in ord.  Dump chooses ord freely.                             *)
(***************************************************************************)
iteration(obj, ord) ==
    LET ks == SelectSeq(ord, LAMBDA key : \E en \in obj : en.k = key)
    IN  [i \in 1..Len(ks) |-> CHOOSE en \in obj : en.k = ks[i]]

RECURSIVE dump_impl(_, _, _, _)
RECURSIVE dump_items(_, _, _, _, _)
RECURSIVE dump_entries(_, _, _, _, _)

\* the separator, were a space to follow each comma
dump_separator_spaced(first, indent, n) ==
    (IF ~first THEN <<Code[","], Code[" "]>> ELSE <<>>)
    \o (IF indent >= 0 THEN <<Code["LF"]>> \o Repeat(n, Code[" "]) ELSE <<>>)

\* if(!first) out += ','; if(indent >= 0) { out += '\n'; out += std::string(n, ' '); }
dump_separator(first, indent, n) ==
    (IF ~first THEN <<Code[","]>> ELSE <<>>)
    \o (IF indent >= 0 THEN <<Code["LF"]>> \o Repeat(n, Code[" "]) ELSE <<>>)

\* the closing line, were it indented as the elements are
dump_close_deep(empty, indent, current_indent) ==
    IF indent >= 0 /\ ~empty
    THEN <<Code["LF"]>> \o Repeat(current_indent + indent, Code[" "]) ELSE <<>>

\* if(indent >= 0 && !empty) { out += '\n'; out += std::string(current_indent, ' '); }
dump_close(empty, indent, current_indent) ==
    IF indent >= 0 /\ ~empty
    THEN <<Code["LF"]>> \o Repeat(current_indent, Code[" "]) ELSE <<>>

\* the turns i.. of for(const auto& item : arr)
dump_items(arr, i, indent, current_indent, ord) ==
    IF i > Len(arr) THEN <<>>
    ELSE dump_separator(i = 1, indent, current_indent + indent)
         \o dump_impl(arr[i], indent, current_indent + indent, ord)
         \o dump_items(arr, i + 1, indent, current_indent, ord)

\* the turns i.. of for(const auto& [key, val] : obj)
dump_entries(ents, i, indent, current_indent, ord) ==
    IF i > Len(ents) THEN <<>>
    ELSE dump_separator(i = 1, indent, current_indent + indent)
         \o <<Code["\""]>> \o ents[i].k \o <<Code["\""]>>
         \o <<Code[":"]>>
         \o (IF indent >= 0 THEN <<Code[" "]>> ELSE <<>>)
         \o dump_impl(ents[i].v, indent, current_indent + indent, ord)
         \o dump_entries(ents, i + 1, indent, current_indent, ord)

\* what dump_impl appends to out
dump_impl(v, indent, current_indent, ord) ==
    IF is_null(v) THEN Txt(<<"n", "u", "l", "l">>)
    ELSE IF is_bool(v)
    THEN (IF v.b THEN Txt(<<"t", "r", "u", "e">>) ELSE Txt(<<"f", "a", "l", "s", "e">>))
    ELSE IF is_number(v) THEN ostream_double(v.n)
    ELSE IF is_string(v) THEN <<Code["\""]>> \o dump_string(v.s) \o <<Code["\""]>>
    ELSE IF is_array(v)
    THEN <<Code["["]>>
         \o dump_items(v.a, 1, indent, current_indent, ord)
         \o dump_close(v.a = <<>>, indent, current_indent)
         \o <<Code["]"]>>
    ELSE <<Code["{"]>>
         \o dump_entries(iteration(v.o, ord), 1, indent, current_indent, ord)
         \o dump_close(v.o = {}, indent, current_indent)
         \o <<Code["}"]>>

dump(v, indent, ord) == dump_impl(v, indent, 0, ord)

RECURSIVE AllKeys(_)
\* every key of every object of the tree v
AllKeys(v) ==
    IF is_array(v) THEN UNION {AllKeys(v.a[i]) : i \in 1..Len(v.a)}
    ELSE IF is_object(v) THEN {en.k : en \in v.o} \cup UNION {AllKeys(en.v) : en \in v.o}
    ELSE {}

\* the sequences that hold every element of S once
Orders(S) ==
    {p \in [1..Cardinality(S) -> S] : \A i, j \in 1..Cardinality(S) : p[i] = p[j] => i = j}

(***************************************************************************)
(* The texts the caller hands to parse.  A text is the concatenation of a  *)
(* sequence of tokens (toks); the families below are every sequence of     *)
(* tokens over a small alphabet up to a length bound, the arrays and the   *)
(* objects over a few elements up to a size bound, and a corpus of the     *)
(* texts of the tests, the README and the specification.                   *)
(***************************************************************************)
MaxNumLen == 4
MaxStrLen == 3
MaxToks == 4
MaxElems == 3
MaxMembers == 3
MaxIndent == 2

T(names) == Txt(names)

RECURSIVE Flat(_)
Flat(w) == IF w = <<>> THEN <<>> ELSE w[1] \o Flat(Tail(w))

Words(A, n) == UNION {[1..k -> A] : k \in 0..n}

NumAlphabet == {T(<<c>>) : c \in {"-", "+", "0", "1", "9", ".", "e", "E"}}
NumWords == Words(NumAlphabet, MaxNumLen)

QUOTE == T(<<"\"">>)
StrAlphabet ==
    {T(<<c>>) : c \in {"\"", "\\", "/", "n", "r", "t", "b", "f", "u", "x", "0", "NUL"}}
StrWords == {<<QUOTE>> \o w : w \in Words(StrAlphabet, MaxStrLen)}

KeyA == T(<<"\"", "a", "\"">>)
KeyB == T(<<"\"", "b", "\"">>)
StructAlphabet ==
    {T(<<c>>) : c \in {"[", "]", "{", "}", ",", ":", "1", " "}} \cup {KeyA}
StructWords == Words(StructAlphabet, MaxToks)

\* a comma-separated list of the items
RECURSIVE Commas(_)
Commas(items) ==
    IF Len(items) <= 1 THEN items
    ELSE <<items[1], T(<<",">>)>> \o Commas(Tail(items))

ElemTexts ==
    {T(<<"1">>), T(<<"2">>), KeyA, T(<<"n", "u", "l", "l">>), T(<<"[", "]">>),
     T(<<"[", "2", ",", "1", "]">>)}
ArrWords ==
    {<<T(<<"[">>)>> \o Commas(es) \o <<T(<<"]">>)>> :
        es \in UNION {[1..k -> ElemTexts] : k \in 0..MaxElems}}

MemberValues == {T(<<"1">>), T(<<"2">>), T(<<"[", "1", "]">>)}
Members == {<<k, T(<<":">>), v>> : k \in {KeyA, KeyB}, v \in MemberValues}
RECURSIVE CommaJoin(_)
CommaJoin(ms) ==
    IF Len(ms) = 0 THEN <<>>
    ELSE IF Len(ms) = 1 THEN ms[1]
    ELSE ms[1] \o <<T(<<",">>)>> \o CommaJoin(Tail(ms))
ObjWords ==
    {<<T(<<"{">>)>> \o CommaJoin(ms) \o <<T(<<"}">>)>> :
        ms \in UNION {[1..k -> Members] : k \in 0..MaxMembers}}

Corpus ==
    { <<T(<<"1", "2", "3">>), T(<<"a", "b", "c">>)>>,
      <<T(<<"0", "0", "7">>)>>,
      <<T(<<"1", "e", "9", "9", "9">>)>>,
      <<T(<<"1", "e", "-", "9", "9", "9">>)>>,
      <<T(<<"-", "0", ".", "5">>)>>,
      <<T(<<"1", "e", "1", "0">>)>>,
      <<T(<<"1", "0", "0", "0", "0", "0", "1">>)>>,
      <<T(<<"1", ".", "5", "e", "+", "3", "0", "0">>)>>,
      <<T(<<"1", "9", "e", "-", "7">>)>>,
      <<T(<<"\"", "\\", "u", "0", "0", "4", "1", "\"">>)>>,
      <<T(<<"\"", "\\", "u", "0", "0", "0", "0", "\"">>)>>,
      <<T(<<"\"", "\\", "u", "0", "0", "e", "9", "\"">>)>>,
      <<T(<<"\"", "\\", "u", "2", "0", "A", "C", "\"">>)>>,
      <<T(<<"\"", "a", "\\", "n", "b", "\"">>)>>,
      <<T(<<"\"", "\\", "b", "\\", "f", "\\", "/", "\"">>)>>,
      <<T(<<"\"", "\\", "\"", "\\", "\\", "\\", "r", "\\", "t", "\"">>)>>,
      <<T(<<"\"", "h", "e", "l", "l", "o">>)>>,
      <<T(<<"u", "n", "d", "e", "f", "i", "n", "e", "d">>)>>,
      <<T(<<"t", "r", "u", "e">>)>>,
      <<T(<<"f", "a", "l", "s", "e">>)>>,
      <<T(<<"n", "u", "l", "l">>)>>,
      <<T(<<"[">>), T(<<"1">>), T(<<",">>), T(<<"2">>), T(<<",">>), T(<<"]">>)>>,
      <<T(<<"[">>), T(<<"1">>), T(<<",">>), T(<<"2">>)>>,
      <<T(<<"[">>), T(<<"1">>), T(<<" ">>), T(<<"2">>), T(<<"]">>)>>,
      <<T(<<"[">>), T(<<"[">>), T(<<"1">>), T(<<",">>), T(<<"2">>), T(<<"]">>), T(<<",">>),
        T(<<"[">>), T(<<"3">>), T(<<",">>), T(<<"4">>), T(<<"]">>), T(<<"]">>)>>,
      <<T(<<"[">>), T(<<"1">>), T(<<",">>), T(<<" ">>), T(<<"\"", "t", "w", "o", "\"">>),
        T(<<",">>), T(<<" ">>), T(<<"t", "r", "u", "e">>), T(<<",">>), T(<<" ">>),
        T(<<"n", "u", "l", "l">>), T(<<"]">>)>>,
      <<T(<<"{">>), KeyA, T(<<":">>), T(<<"1">>), T(<<",">>), T(<<"}">>)>>,
      <<T(<<"{">>), KeyA, T(<<":">>), T(<<" ">>), T(<<"1">>)>>,
      <<T(<<"{">>), KeyA, T(<<":">>), T(<<"1">>), T(<<" ">>), KeyB, T(<<":">>), T(<<"2">>),
        T(<<"}">>)>>,
      <<T(<<"{">>), T(<<"1">>), T(<<":">>), T(<<"1">>), T(<<"}">>)>>,
      <<T(<<"{">>), KeyA, T(<<":">>), T(<<"1">>), T(<<",">>), KeyA, T(<<":">>), T(<<"2">>),
        T(<<"}">>)>>,
      <<T(<<" ">>), T(<<"{">>), T(<<" ">>), KeyA, T(<<" ">>), T(<<":">>), T(<<" ">>),
        T(<<"1">>), T(<<" ">>), T(<<"}">>), T(<<" ">>)>>,
      <<T(<<"{">>), T(<<"\"", "\\", "\"", "\"">>), T(<<":">>), T(<<"1">>), T(<<"}">>)>>,
      <<T(<<"{">>), T(<<"\"", "\\", "\\", "\"">>), T(<<":">>), T(<<"1">>), T(<<"}">>)>>,
      <<T(<<"{">>), T(<<"\"", "\\", "n", "\"">>), T(<<":">>), KeyB, T(<<"}">>)>>,
      <<T(<<"{">>), KeyA, T(<<":">>), T(<<"{">>), KeyB, T(<<":">>),
        T(<<"[">>), T(<<"t", "r", "u", "e">>), T(<<"]">>), T(<<"}">>), T(<<"}">>)>>,
      <<T(<<"1">>), T(<<"FF">>)>>,
      <<T(<<"1">>), T(<<"VT">>), T(<<"2">>)>>,
      <<T(<<"TAB">>), T(<<"1">>), T(<<"LF">>), T(<<"CR">>)>>,
      <<T(<<"[">>), T(<<"\"", "a", " ", "b", "\"">>), T(<<",">>), T(<<"1">>), T(<<"]">>)>>,
      <<T(<<"{">>), T(<<"\"", " ", "\"">>), T(<<":">>), T(<<"\"", " ", "\"">>), T(<<"}">>)>>,
      <<T(<<"[">>), T(<<"1">>), T(<<",">>), T(<<"FF">>), T(<<"2">>), T(<<"]">>)>> }

\* a string that begins with \u, up to four hex digits, and ends there, at a quote
\* or at a byte that is no hex digit
HexDigits == 4
HexAlphabet == {T(<<c>>) : c \in {"0", "7", "8", "F", "f"}}
UnicodeWords ==
    {<<QUOTE, T(<<"\\", "u">>)>> \o w \o tail :
        w \in Words(HexAlphabet, HexDigits),
        tail \in {<<>>, <<QUOTE>>, <<T(<<"x">>), QUOTE>>}}

Inputs ==
    NumWords \cup StrWords \cup StructWords \cup ArrWords \cup ObjWords \cup UnicodeWords
        \cup Corpus

Indents == (-MaxIndent)..MaxIndent

NoResult ==
    [ok |-> FALSE, pos |-> 0, val |-> JsonValue_null, kind |-> "none", msg |-> "",
     position |-> 0]

\* no call made yet on va or vb
NoCall ==
    [op |-> "none", on |-> "va", arg |-> <<>>, ok |-> TRUE, kind |-> "none", msg |-> "",
     val |-> <<>>]

(***************************************************************************)
(* The caller: parse a text, dump the value, parse the dumped text.        *)
(***************************************************************************)
Init ==
    /\ toks \in Inputs
    /\ text = Flat(toks)
    /\ erange_underflow \in BOOLEAN
    /\ pc = "start"
    /\ res = NoResult
    /\ dump_indent = -1
    /\ dumped = <<>>
    /\ res2 = NoResult
    /\ heap = <<>>
    /\ va = JsonValue_null
    /\ vb = JsonValue_null
    /\ ret = NoCall
    /\ vpc = "none"
    /\ pos_ = 0
    /\ stack = <<>>
    /\ thrown = NoResult
    /\ steps = 0

\* auto val = json::parse(text);
Parse ==
    /\ pc = "start"
    /\ res' = parse(text)
    /\ pc' = "parsed"
    /\ UNCHANGED <<toks, text, erange_underflow, dump_indent, dumped, res2>>
    /\ UNCHANGED value_vars
    /\ UNCHANGED cursor_vars

\* auto dumped = val.dump(indent);
Dump ==
    /\ pc = "parsed"
    /\ res.ok
    /\ \E i \in Indents, ord \in Orders(AllKeys(res.val)) :
          /\ dump_indent' = i
          /\ dumped' = dump(res.val, i, ord)
    /\ pc' = "dumped"
    /\ UNCHANGED <<toks, text, erange_underflow, res, res2>>
    /\ UNCHANGED value_vars
    /\ UNCHANGED cursor_vars

\* auto reparsed = json::parse(dumped);
Reparse ==
    /\ pc = "dumped"
    /\ res2' = parse(dumped)
    /\ pc' = "reparsed"
    /\ UNCHANGED <<toks, text, erange_underflow, res, dump_indent, dumped>>
    /\ UNCHANGED value_vars
    /\ UNCHANGED cursor_vars

Next == Parse \/ Dump \/ Reparse

Spec == Init /\ [][Next]_vars

(***************************************************************************)
(* JsonValues in memory.  An Array or Object value holds a unique_ptr to   *)
(* its container: [type |-> "array", ptr |-> p] with h[p] = [items |-> the *)
(* vector of JsonValues], [type |-> "object", ptr |-> p] with h[p] =       *)
(* [ents |-> the entries of the unordered_map].  The other alternatives    *)
(* are held inline, as in the trees above.  h is the heap, a sequence of   *)
(* containers indexed by address; a destroyed container stays in h,        *)
(* unreferenced.                                                           *)
(***************************************************************************)
\* std::make_unique<T>(c): c at a fresh address
make_unique(h, c) == [heap |-> Append(h, c), ptr |-> Len(h) + 1]

\* the address held by a std::unique_ptr that owns nothing
nullptr == 0

\* *p of a unique_ptr p that owns nothing: undefined behaviour
undefined == StdError("undefined behaviour", "dereference of a null unique_ptr", 0)

\* v holds the alternative of a container and its unique_ptr owns nothing
IsNull(v) == (is_array(v) \/ is_object(v)) /\ v.ptr = nullptr

\* v after JsonValue(std::move(v)) or w = std::move(v): the unique_ptr of a
\* container is left null, a std::string is left empty (libstdc++), the other
\* alternatives are copied
moved_from(v) ==
    IF is_array(v) \/ is_object(v) THEN [v EXCEPT !.ptr = nullptr]
    ELSE IF is_string(v) THEN JsonValue_string(<<>>)
    ELSE v

RECURSIVE Tree(_, _)
\* the tree that the value v of heap h stands for; a value whose unique_ptr owns
\* nothing stands for no tree, it is given an empty content and the null address
Tree(h, v) ==
    IF IsNull(v) THEN [type |-> v.type, a |-> <<>>, o |-> {}, ptr |-> nullptr]
    ELSE IF is_array(v)
    THEN JsonValue_array([i \in 1..Len(h[v.ptr].items) |-> Tree(h, h[v.ptr].items[i])])
    ELSE IF is_object(v)
    THEN JsonValue_object({[k |-> en.k, v |-> Tree(h, en.v)] : en \in h[v.ptr].ents})
    ELSE v

\* the entries of an unordered_map in some order
RECURSIVE entries_seq(_)
entries_seq(ents) ==
    IF ents = {} THEN <<>>
    ELSE Bind(CHOOSE en \in ents : TRUE, LAMBDA en :
             <<en>> \o entries_seq(ents \ {en}))

RECURSIVE copy_construct(_, _)
RECURSIVE copy_vector(_, _, _, _)
RECURSIVE copy_map(_, _, _, _)

\* std::vector's copy constructor: element i.. copied by JsonValue's copy constructor
copy_vector(h, items, i, acc) ==
    IF i > Len(items) THEN [heap |-> h, items |-> acc, ub |-> FALSE]
    ELSE Bind(copy_construct(h, items[i]), LAMBDA c :
             IF c.ub THEN [heap |-> c.heap, items |-> acc, ub |-> TRUE]
             ELSE copy_vector(c.heap, items, i + 1, Append(acc, c.val)))

\* std::unordered_map's copy constructor
copy_map(h, ents, i, acc) ==
    IF i > Len(ents) THEN [heap |-> h, ents |-> acc, ub |-> FALSE]
    ELSE Bind(copy_construct(h, ents[i].v), LAMBDA c :
             IF c.ub THEN [heap |-> c.heap, ents |-> acc, ub |-> TRUE]
             ELSE copy_map(c.heap, ents, i + 1, acc \cup {[k |-> ents[i].k, v |-> c.val]}))

\* value_ = std::make_unique<JsonArray>(other.as_array()); ub: the behaviour was
\* undefined, other.as_array() having dereferenced a null unique_ptr
copy_array(h, other) ==
    IF IsNull(other) THEN [heap |-> h, val |-> other, ub |-> TRUE]
    ELSE Bind(copy_vector(h, h[other.ptr].items, 1, <<>>), LAMBDA c :
         IF c.ub THEN [heap |-> c.heap, val |-> other, ub |-> TRUE]
         ELSE Bind(make_unique(c.heap, [items |-> c.items]), LAMBDA m :
                  [heap |-> m.heap, val |-> [type |-> "array", ptr |-> m.ptr],
                   ub |-> FALSE]))

\* value_ = std::make_unique<JsonObject>(other.as_object())
copy_object(h, other) ==
    IF IsNull(other) THEN [heap |-> h, val |-> other, ub |-> TRUE]
    ELSE Bind(copy_map(h, entries_seq(h[other.ptr].ents), 1, {}), LAMBDA c :
         IF c.ub THEN [heap |-> c.heap, val |-> other, ub |-> TRUE]
         ELSE Bind(make_unique(c.heap, [ents |-> c.ents]), LAMBDA m :
                  [heap |-> m.heap, val |-> [type |-> "object", ptr |-> m.ptr],
                   ub |-> FALSE]))

\* JsonValue::JsonValue(const JsonValue& other)
copy_construct(h, other) ==
    IF is_array(other) THEN copy_array(h, other)
    ELSE IF is_object(other) THEN copy_object(h, other)
    ELSE [heap |-> h, val |-> other, ub |-> FALSE]

RECURSIVE construct(_, _)
RECURSIVE construct_vector(_, _, _, _)
RECURSIVE construct_map(_, _, _, _)

construct_vector(h, trees, i, acc) ==
    IF i > Len(trees) THEN [heap |-> h, items |-> acc]
    ELSE Bind(construct(h, trees[i]), LAMBDA c :
             construct_vector(c.heap, trees, i + 1, Append(acc, c.val)))

construct_map(h, ents, i, acc) ==
    IF i > Len(ents) THEN [heap |-> h, ents |-> acc]
    ELSE Bind(construct(h, ents[i].v), LAMBDA c :
             construct_map(c.heap, ents, i + 1, acc \cup {[k |-> ents[i].k, v |-> c.val]}))

\* the constructors: JsonValue(nullptr), JsonValue(bool), .., JsonValue(JsonArray),
\* JsonValue(JsonObject), applied to the tree t bottom up
construct(h, t) ==
    IF is_array(t)
    THEN Bind(construct_vector(h, t.a, 1, <<>>), LAMBDA c :
         Bind(make_unique(c.heap, [items |-> c.items]), LAMBDA m :
             [heap |-> m.heap, val |-> [type |-> "array", ptr |-> m.ptr]]))
    ELSE IF is_object(t)
    THEN Bind(construct_map(h, entries_seq(t.o), 1, {}), LAMBDA c :
         Bind(make_unique(c.heap, [ents |-> c.ents]), LAMBDA m :
             [heap |-> m.heap, val |-> [type |-> "object", ptr |-> m.ptr]]))
    ELSE [heap |-> h, val |-> t]

\* throw std::runtime_error(msg)
runtime_error(msg) == StdError("std::runtime_error", msg, 0)
\* std::out_of_range thrown by at() of a container
out_of_range(msg) == StdError("std::out_of_range", msg, 0)
\* return val
Return(val) == Ok(0, val)

(***************************************************************************)
(* Accessors.  as_array and as_object return a reference to the container, *)
(* here its address.                                                       *)
(***************************************************************************)
\* *p of the unique_ptr that holds the address p
deref(p) == IF p = nullptr THEN undefined ELSE Return(p)

as_bool(v) == IF ~is_bool(v) THEN runtime_error("not a bool") ELSE Return(v.b)
as_number(v) == IF ~is_number(v) THEN runtime_error("not a number") ELSE Return(v.n)
as_string(v) == IF ~is_string(v) THEN runtime_error("not a string") ELSE Return(v.s)
as_array_const(v) == IF ~is_array(v) THEN runtime_error("not an array") ELSE deref(v.ptr)
as_object_const(v) == IF ~is_object(v) THEN runtime_error("not an object") ELSE deref(v.ptr)
as_array(v) == IF ~is_array(v) THEN runtime_error("not an array") ELSE deref(v.ptr)
as_object(v) == IF ~is_object(v) THEN runtime_error("not an object") ELSE deref(v.ptr)

\* a reference to an element of a container: [ptr, index] or [ptr, key]
IsIndexRef(ref) == "index" \in DOMAIN ref

\* the JsonValue a reference refers to
Deref(h, ref) ==
    IF IsIndexRef(ref) THEN h[ref.ptr].items[ref.index + 1]
    ELSE (CHOOSE en \in h[ref.ptr].ents : en.k = ref.key).v

\* std::vector::at(index) of the vector at address p
vector_at(h, p, index) ==
    IF index >= Len(h[p].items) THEN out_of_range("vector::_M_range_check")
    ELSE Return([ptr |-> p, index |-> index])

\* std::unordered_map::at(key) of the map at address p
map_at(h, p, key) ==
    IF \E en \in h[p].ents : en.k = key THEN Return([ptr |-> p, key |-> key])
    ELSE out_of_range("unordered_map::at")

\* std::unordered_map::operator[](key) of the map at address p: the heap after it
map_subscript(h, p, key) ==
    IF \E en \in h[p].ents : en.k = key THEN h
    ELSE [h EXCEPT ![p].ents = @ \cup {[k |-> key, v |-> JsonValue_null]}]

\* const JsonValue& operator[](std::size_t index) const
subscript_index_const(h, v, index) ==
    Bind(as_array_const(v), LAMBDA r : IF ~r.ok THEN r ELSE vector_at(h, r.val, index))

\* JsonValue& operator[](std::size_t index)
subscript_index(h, v, index) ==
    Bind(as_array(v), LAMBDA r : IF ~r.ok THEN r ELSE vector_at(h, r.val, index))

\* const JsonValue& operator[](const std::string& key) const
subscript_key_const(h, v, key) ==
    Bind(as_object_const(v), LAMBDA r : IF ~r.ok THEN r ELSE map_at(h, r.val, key))

\* the mutable operator[](key), were a Value that holds no object to report a
\* missing key
subscript_key_unchecked(h, v, key) ==
    Bind(as_object(v), LAMBDA r :
        IF ~r.ok THEN [heap |-> h, r |-> out_of_range("unordered_map::at")]
        ELSE [heap |-> map_subscript(h, r.val, key),
              r |-> Return([ptr |-> r.val, key |-> key])])

\* JsonValue& operator[](const std::string& key): the outcome and the heap after it
subscript_key(h, v, key) ==
    Bind(as_object(v), LAMBDA r :
        IF ~r.ok THEN [heap |-> h, r |-> r]
        ELSE [heap |-> map_subscript(h, r.val, key),
              r |-> Return([ptr |-> r.val, key |-> key])])

\* std::size_t size() const
size(h, v) ==
    IF is_array(v)
    THEN Bind(as_array_const(v), LAMBDA r :
             IF ~r.ok THEN r ELSE Return(Len(h[r.val].items)))
    ELSE IF is_object(v)
    THEN Bind(as_object_const(v), LAMBDA r :
             IF ~r.ok THEN r ELSE Return(Cardinality(h[r.val].ents)))
    ELSE runtime_error("size() only valid for arrays and objects")

\* one subscript of a statement: [index |-> i] or [key |-> k]
IsIndexStep(step) == "index" \in DOMAIN step

\* v[step] with the mutable operator[]: the outcome and the heap after it
subscript_step(h, v, step) ==
    IF IsIndexStep(step)
    THEN [heap |-> h, r |-> subscript_index(h, v, step.index)]
    ELSE subscript_key(h, v, step.key)

RECURSIVE subscript_path(_, _, _)
\* v[path[1]][path[2]].. with the mutable operator[], left to right
subscript_path(h, v, path) ==
    Bind(subscript_step(h, v, path[1]), LAMBDA s1 :
        IF ~s1.r.ok \/ Len(path) = 1 THEN s1
        ELSE subscript_path(s1.heap, Deref(s1.heap, s1.r.val), Tail(path)))

\* JsonValue& operator=(JsonValue&&) = default, on the JsonValue that ref refers to
move_assign(h, ref, val) ==
    IF IsIndexRef(ref)
    THEN [h EXCEPT ![ref.ptr].items[ref.index + 1] = val]
    ELSE [h EXCEPT ![ref.ptr].ents =
              {en \in @ : en.k # ref.key} \cup {[k |-> ref.key, v |-> val]}]

\* the statement v[path[1]].. = JsonValue(t): the temporary is constructed, the
\* subscripts are applied, the temporary is moved into the element
assign_path(h, v, path, t) ==
    Bind(construct(h, t), LAMBDA tmp :
    Bind(subscript_path(tmp.heap, v, path), LAMBDA n :
        IF ~n.r.ok THEN n
        ELSE [heap |-> move_assign(n.heap, n.r.val, tmp.val), r |-> n.r]))

\* JsonValue& operator=(const JsonValue& other); same is this == &other
copy_assign(h, this, other, same) ==
    IF same THEN [heap |-> h, val |-> this, ub |-> FALSE] ELSE copy_construct(h, other)

(***************************************************************************)
(* The caller of the value interface: va is constructed, vb is default     *)
(* constructed; then at most one copy, at most one statement that may      *)
(* change a value, and a last call that reads.                             *)
(***************************************************************************)
MaxIndex == 1
Keys == {Txt(<<"a">>), Txt(<<"b">>)}
Num(m) == JsonValue_number([neg |-> FALSE, m |-> m, e |-> 0])
Entry(key, v) == [k |-> Txt(<<key>>), v |-> v]

InitTrees ==
    { JsonValue_null,
      JsonValue_bool(TRUE),
      Num(7),
      JsonValue_string(Txt(<<"7">>)),
      JsonValue_array(<<>>),
      JsonValue_array(<<Num(1)>>),
      JsonValue_array(<<JsonValue_array(<<Num(1), Num(2)>>),
                        JsonValue_object({Entry("a", Num(3))})>>),
      JsonValue_object({}),
      JsonValue_object({Entry("a", Num(1))}),
      JsonValue_object({Entry("a", JsonValue_array(<<Num(1)>>)),
                        Entry("b", JsonValue_object({Entry("a", JsonValue_bool(FALSE))}))}) }

AssignedTrees == {Num(9), JsonValue_array(<<Num(9)>>)}

Steps == {[index |-> i] : i \in 0..MaxIndex} \cup {[key |-> k] : k \in Keys}
\* the subscripts of a statement x[s] = .. or x[s][t] = ..
Paths == {<<s>> : s \in Steps} \cup {<<s, t>> : s \in Steps, t \in Steps}
Roots == {"va", "vb"}

Val(x) == IF x = "va" THEN va ELSE vb
Other(x) == IF x = "va" THEN "vb" ELSE "va"

Call(op, x, arg, r, val) ==
    [op |-> op, on |-> x, arg |-> arg, ok |-> r.ok, kind |-> r.kind, msg |-> r.msg,
     val |-> IF r.ok THEN val ELSE <<>>]

\* what a build does where the behaviour is undefined: the process is killed at a
\* read through the null address, or the call returns a reference to it
UndefinedOutcomes == {"SIGSEGV", "null reference"}

\* the outcomes of a call
Outcomes(call) ==
    IF call.kind = "undefined behaviour"
    THEN {[call EXCEPT !.kind = k] : k \in UndefinedOutcomes}
    ELSE {call}

\* the phase after a call: nothing is known of the program once its behaviour was
\* undefined
After(phase, r) == IF r.kind = "undefined behaviour" THEN "undefined" ELSE phase

InitValue ==
    /\ toks = <<>>
    /\ text = <<>>
    /\ erange_underflow = TRUE
    /\ pc = "none"
    /\ res = NoResult
    /\ dump_indent = -1
    /\ dumped = <<>>
    /\ res2 = NoResult
    /\ \E t \in InitTrees :
          /\ heap = construct(<<>>, t).heap
          /\ va = construct(<<>>, t).val
    /\ vb = JsonValue_null
    /\ ret = NoCall
    /\ vpc = "constructed"
    /\ pos_ = 0
    /\ stack = <<>>
    /\ thrown = NoResult
    /\ steps = 0

\* a call that returns without changing va, vb or the heap
ReadCall(call) ==
    /\ vpc \in {"constructed", "moved", "copied", "mutated"}
    /\ ret' \in Outcomes(call)
    /\ vpc' = "read"
    /\ UNCHANGED <<heap, va, vb>>
    /\ UNCHANGED parser_vars
    /\ UNCHANGED cursor_vars

AsBool == \E x \in Roots : ReadCall(Call("as_bool", x, <<>>, as_bool(Val(x)), as_bool(Val(x)).val))
AsNumber == \E x \in Roots : ReadCall(Call("as_number", x, <<>>, as_number(Val(x)), as_number(Val(x)).val))
AsString == \E x \in Roots : ReadCall(Call("as_string", x, <<>>, as_string(Val(x)), as_string(Val(x)).val))

AsArrayConst ==
    \E x \in Roots :
        ReadCall(Call("as_array const", x, <<>>, as_array_const(Val(x)),
                      heap[as_array_const(Val(x)).val].items))

AsObjectConst ==
    \E x \in Roots :
        ReadCall(Call("as_object const", x, <<>>, as_object_const(Val(x)),
                      heap[as_object_const(Val(x)).val].ents))

AsArray ==
    \E x \in Roots :
        ReadCall(Call("as_array", x, <<>>, as_array(Val(x)),
                      heap[as_array(Val(x)).val].items))

AsObject ==
    \E x \in Roots :
        ReadCall(Call("as_object", x, <<>>, as_object(Val(x)),
                      heap[as_object(Val(x)).val].ents))

\* x[i] on a const JsonValue
SubscriptIndexConst ==
    \E x \in Roots, i \in 0..(MaxIndex + 1) :
        ReadCall(Call("[index] const", x, i, subscript_index_const(heap, Val(x), i),
                      Deref(heap, subscript_index_const(heap, Val(x), i).val)))

\* x[i]
SubscriptIndex ==
    \E x \in Roots, i \in 0..(MaxIndex + 1) :
        ReadCall(Call("[index]", x, i, subscript_index(heap, Val(x), i),
                      Deref(heap, subscript_index(heap, Val(x), i).val)))

\* x[k] on a const JsonValue
SubscriptKeyConst ==
    \E x \in Roots, k \in Keys :
        ReadCall(Call("[key] const", x, k, subscript_key_const(heap, Val(x), k),
                      Deref(heap, subscript_key_const(heap, Val(x), k).val)))

\* x.size()
Size ==
    \E x \in Roots :
        ReadCall(Call("size", x, <<>>, size(heap, Val(x)), size(heap, Val(x)).val))

\* x[k]
SubscriptKey ==
    /\ vpc \in {"constructed", "moved", "copied"}
    /\ \E x \in Roots, k \in Keys :
          /\ heap' = subscript_key(heap, Val(x), k).heap
          /\ ret' \in Outcomes(Call("[key]", x, k, subscript_key(heap, Val(x), k).r,
                                    Deref(heap', subscript_key(heap, Val(x), k).r.val)))
          /\ vpc' = After("mutated", subscript_key(heap, Val(x), k).r)
    /\ UNCHANGED <<va, vb>>
    /\ UNCHANGED parser_vars
    /\ UNCHANGED cursor_vars

\* x[s] = JsonValue(t); or x[s][u] = JsonValue(t);
Assign ==
    /\ vpc \in {"constructed", "moved", "copied"}
    /\ \E x \in Roots, path \in Paths, t \in AssignedTrees :
          /\ heap' = assign_path(heap, Val(x), path, t).heap
          /\ ret' \in Outcomes(Call("assign", x, path,
                                    assign_path(heap, Val(x), path, t).r, t))
          /\ vpc' = After("mutated", assign_path(heap, Val(x), path, t).r)
    /\ UNCHANGED <<va, vb>>
    /\ UNCHANGED parser_vars
    /\ UNCHANGED cursor_vars

\* JsonValue vb(va);
CopyConstruct ==
    /\ vpc = "constructed"
    /\ heap' = copy_construct(heap, va).heap
    /\ vb' = copy_construct(heap, va).val
    /\ ret' = Call("copy", "vb", "va", Return(0), <<>>)
    /\ vpc' = "copied"
    /\ UNCHANGED va
    /\ UNCHANGED parser_vars
    /\ UNCHANGED cursor_vars

\* the outcome of a copy: it returns, or its behaviour was undefined
Copied(c) == IF c.ub THEN undefined ELSE Return(0)

\* x = y;
CopyAssign ==
    /\ vpc \in {"constructed", "moved"}
    /\ \E x \in Roots, y \in Roots :
          /\ heap' = copy_assign(heap, Val(x), Val(y), x = y).heap
          /\ va' = IF x = "va" /\ ~copy_assign(heap, Val(x), Val(y), x = y).ub
                   THEN copy_assign(heap, Val(x), Val(y), x = y).val ELSE va
          /\ vb' = IF x = "vb" /\ ~copy_assign(heap, Val(x), Val(y), x = y).ub
                   THEN copy_assign(heap, Val(x), Val(y), x = y).val ELSE vb
          /\ ret' \in Outcomes(Call("=", x, y,
                                    Copied(copy_assign(heap, Val(x), Val(y), x = y)), <<>>))
          /\ vpc' = After("copied", Copied(copy_assign(heap, Val(x), Val(y), x = y)))
    /\ UNCHANGED parser_vars
    /\ UNCHANGED cursor_vars

\* JsonValue vb(std::move(va));
MoveConstruct ==
    /\ vpc = "constructed"
    /\ vb' = va
    /\ va' = moved_from(va)
    /\ ret' = Call("move", "vb", "va", Return(0), <<>>)
    /\ vpc' = "moved"
    /\ UNCHANGED heap
    /\ UNCHANGED parser_vars
    /\ UNCHANGED cursor_vars

\* x = std::move(y); for two different values
MoveAssign ==
    /\ vpc = "constructed"
    /\ \E x \in Roots :
          /\ va' = IF x = "va" THEN vb ELSE moved_from(va)
          /\ vb' = IF x = "vb" THEN va ELSE moved_from(vb)
          /\ ret' = Call("= move", x, Other(x), Return(0), <<>>)
    /\ vpc' = "moved"
    /\ UNCHANGED heap
    /\ UNCHANGED parser_vars
    /\ UNCHANGED cursor_vars

NextValue ==
    \/ AsBool \/ AsNumber \/ AsString
    \/ AsArrayConst \/ AsObjectConst \/ AsArray \/ AsObject
    \/ SubscriptIndexConst \/ SubscriptIndex \/ SubscriptKeyConst \/ Size
    \/ SubscriptKey \/ Assign \/ CopyConstruct \/ CopyAssign
    \/ MoveConstruct \/ MoveAssign

SpecValue == InitValue /\ [][NextValue]_vars

(***************************************************************************)
(* The parser step by step.  Parser(text).parse() runs with the cursor     *)
(* pos_ on text; stack holds the member functions in progress, innermost   *)
(* last, each as a frame [fn, at, head, i]: the function, the place in it  *)
(* where it continues, the cursor where the function was entered (start of *)
(* parse_number) or where the current iteration of its loop began, and the *)
(* counter i of the hex loop.  One step executes at most one statement     *)
(* that moves the cursor.                                                  *)
(***************************************************************************)
MaxCursorToks == 3

CursorAlphabet ==
    {T(<<c>>) : c \in {"[", "]", "{", "}", ",", ":", " ", "1", "-", "\""}}
        \cup {KeyA, T(<<"n", "u", "l", "l">>)}

\* the texts of the corpus cut off after every byte, a few texts that end a number,
\* an escape or a literal early, and every text of at most MaxCursorToks tokens
CursorCorpus ==
    Corpus \cup
    { <<T(<<"[">>), T(<<"1", "e", "9", "9", "9">>), T(<<"]">>)>>,
      <<T(<<"\"", "\\", "u", "0", "0", "x", "\"">>)>>,
      <<T(<<"\"", "\\", "x", "\"">>)>>,
      <<T(<<"[">>), T(<<"t", "r", "u", "e">>), T(<<",">>), T(<<"f", "a", "l", "s", "e">>),
        T(<<",">>), T(<<"n", "u", "l", "l">>), T(<<",">>), T(<<"-", "1", "0", ".", "2", "5", "E", "-", "1", "2">>),
        T(<<"]">>)>>,
      <<T(<<"t", "r", "u", "t", "h">>)>>,
      <<T(<<"1", ".", "x">>)>>,
      <<T(<<"1", "e", "+", "x">>)>>,
      <<T(<<"-", "x">>)>> }

CursorInputs ==
    UNION {{<<SubSeq(Flat(w), 1, k)>> : k \in 0..Len(Flat(w))} : w \in CursorCorpus}
        \cup Words(CursorAlphabet, MaxCursorToks)

Frame(fn, p) == [fn |-> fn, at |-> "entry", head |-> p, i |-> 0]

\* explicit Parser(const std::string& input) : input_(input), pos_(0), then parse() is called
InitCursor ==
    /\ toks \in CursorInputs
    /\ text = Flat(toks)
    /\ erange_underflow \in BOOLEAN
    /\ pc = "none"
    /\ res = NoResult
    /\ dump_indent = -1
    /\ dumped = <<>>
    /\ res2 = NoResult
    /\ heap = <<>>
    /\ va = JsonValue_null
    /\ vb = JsonValue_null
    /\ ret = NoCall
    /\ vpc = "none"
    /\ pos_ = 0
    /\ stack = <<Frame("parse", 0)>>
    /\ thrown = NoResult
    /\ steps = 0

\* the innermost function in progress
Top == stack[Len(stack)]

\* the function continues at another place
Goto(at) == [stack EXCEPT ![Len(stack)].at = at]

\* the function continues at the place at, where an iteration of its loop begins at p
Loop(at, p) == [stack EXCEPT ![Len(stack)] = [@ EXCEPT !.at = at, !.head = p]]

\* the hex loop of parse_string continues with the counter i
HexLoop(i) == [stack EXCEPT ![Len(stack)] = [@ EXCEPT !.at = "hex", !.i = i]]

\* return: the innermost function is left, its callers remain
Callers == SubSeq(stack, 1, Len(stack) - 1)

\* the step moves the cursor to p and the calls in progress become st
Move(p, st) ==
    /\ pos_' = p
    /\ stack' = st
    /\ steps' = steps + 1
    /\ UNCHANGED thrown
    /\ UNCHANGED parser_vars
    /\ UNCHANGED value_vars

\* the step throws the exception r
Raise(r) ==
    /\ pos_' = r.pos
    /\ thrown' = r
    /\ steps' = steps + 1
    /\ UNCHANGED stack
    /\ UNCHANGED parser_vars
    /\ UNCHANGED value_vars

\* the outcome r of consume() or expect(c): thrown, or the function goes on with F(cursor)
Consumed(r, F(_)) == IF ~r.ok THEN Raise(r) ELSE Move(r.pos, F(r.pos))

\* the places where a function has skip_whitespace() to finish before it goes on
SkipsWhitespace(f) ==
    \/ f.fn = "parse" /\ f.at \in {"entry", "after value"}
    \/ f.fn = "parse_value" /\ f.at = "entry"
    \/ f.fn = "parse_array" /\ f.at \in {"first", "after element", "after comma"}
    \/ f.fn = "parse_object" /\ f.at \in {"first", "key", "after key", "after member"}

\* the condition of the loop of skip_whitespace
AtSpace == pos_ < Len(text) /\ isspace(text[pos_ + 1])

\* the parser is inside fn, with no whitespace left to skip first
In(fn) ==
    /\ thrown.kind = "none"
    /\ stack # <<>>
    /\ Top.fn = fn
    /\ ~(SkipsWhitespace(Top) /\ AtSpace)

\* one iteration of while(pos_ < input_.size() && std::isspace(input_[pos_])) ++pos_;
StepSkipWhitespace ==
    /\ thrown.kind = "none"
    /\ stack # <<>>
    /\ SkipsWhitespace(Top)
    /\ AtSpace
    /\ Move(pos_ + 1, stack)

\* JsonValue parse()
StepParse ==
    /\ In("parse")
    /\ IF Top.at = "entry"
       THEN Move(pos_, Append(Goto("after value"), Frame("parse_value", pos_)))
       ELSE IF pos_ # Len(text)
            THEN Raise(ParseError("unexpected characters after JSON", pos_, pos_))
            ELSE Move(pos_, Callers)

\* JsonValue parse_value(): return parse_xxx() hands the frame over to parse_xxx
StepParseValue ==
    /\ In("parse_value")
    /\ \/ /\ peek(text, pos_) = Code["n"]
          /\ Move(pos_, Append(Callers, Frame("parse_null", pos_)))
       \/ /\ peek(text, pos_) \in {Code["t"], Code["f"]}
          /\ Move(pos_, Append(Callers, Frame("parse_bool", pos_)))
       \/ /\ peek(text, pos_) = Code["\""]
          /\ Move(pos_, Append(Callers, Frame("parse_string", pos_)))
       \/ /\ peek(text, pos_) = Code["["]
          /\ Move(pos_, Append(Callers, Frame("parse_array", pos_)))
       \/ /\ peek(text, pos_) = Code["{"]
          /\ Move(pos_, Append(Callers, Frame("parse_object", pos_)))
       \/ /\ peek(text, pos_) = Code["-"] \/ isdigit(peek(text, pos_))
          /\ Move(pos_, Append(Callers, Frame("parse_number", pos_)))
       \/ /\ peek(text, pos_) \notin
                 {Code["n"], Code["t"], Code["f"], Code["\""], Code["["], Code["{"], Code["-"]}
          /\ ~isdigit(peek(text, pos_))
          /\ Raise(ParseError("unexpected character", pos_, pos_))

\* JsonValue parse_null()
StepParseNull ==
    /\ In("parse_null")
    /\ IF substr(text, pos_, 4) = Txt(<<"n", "u", "l", "l">>)
       THEN Move(pos_ + 4, Callers)
       ELSE Raise(ParseError("expected 'null'", pos_, pos_))

\* JsonValue parse_bool()
StepParseBool ==
    /\ In("parse_bool")
    /\ IF substr(text, pos_, 4) = Txt(<<"t", "r", "u", "e">>)
       THEN Move(pos_ + 4, Callers)
       ELSE IF substr(text, pos_, 5) = Txt(<<"f", "a", "l", "s", "e">>)
            THEN Move(pos_ + 5, Callers)
            ELSE Raise(ParseError("expected 'true' or 'false'", pos_, pos_))

\* while(std::isdigit(peek())) ++pos_; one test of the condition, then on to the place next
DigitLoop(next) ==
    IF isdigit(peek(text, pos_)) THEN Move(pos_ + 1, stack) ELSE Move(pos_, Goto(next))

\* if(!std::isdigit(peek())) throw ParseError("invalid number", pos_);
DigitOrThrow(next) ==
    IF ~isdigit(peek(text, pos_))
    THEN Raise(ParseError("invalid number", pos_, pos_))
    ELSE Move(pos_, Goto(next))

\* std::stod(input_.substr(start, pos_ - start)), start being the head of the frame
NumberEnd(r) == IF r.ok THEN Move(pos_, Callers) ELSE Raise(r)

\* JsonValue parse_number()
StepParseNumber ==
    /\ In("parse_number")
    /\ CASE Top.at = "entry" ->
                Move(IF peek(text, pos_) = Code["-"] THEN pos_ + 1 ELSE pos_, Goto("lead"))
         [] Top.at = "lead" ->
                IF peek(text, pos_) = Code["0"] THEN Move(pos_ + 1, Goto("point"))
                ELSE IF isdigit(peek(text, pos_)) THEN Move(pos_, Goto("digits"))
                ELSE Raise(ParseError("invalid number", pos_, pos_))
         [] Top.at = "digits" -> DigitLoop("point")
         [] Top.at = "point" ->
                IF peek(text, pos_) = Code["."]
                THEN Move(pos_ + 1, Goto("fraction"))
                ELSE Move(pos_, Goto("e"))
         [] Top.at = "fraction" -> DigitOrThrow("fraction digits")
         [] Top.at = "fraction digits" -> DigitLoop("e")
         [] Top.at = "e" ->
                IF peek(text, pos_) \in {Code["e"], Code["E"]}
                THEN Move(pos_ + 1, Goto("sign"))
                ELSE Move(pos_, Goto("stod"))
         [] Top.at = "sign" ->
                Move(IF peek(text, pos_) \in {Code["+"], Code["-"]} THEN pos_ + 1 ELSE pos_,
                     Goto("exponent"))
         [] Top.at = "exponent" -> DigitOrThrow("exponent digits")
         [] Top.at = "exponent digits" -> DigitLoop("stod")
         [] Top.at = "stod" ->
                NumberEnd(stod(substr(text, Top.head, pos_ - Top.head), pos_))

\* str += peek(): the character is appended and the cursor left where it is
string_char_peek(input, pos) == Ok(pos, peek(input, pos))

\* str += consume(); for a character that is neither a quote nor a backslash
string_char(input, pos) == consume(input, pos)

\* JsonValue parse_string()
StepParseString ==
    /\ In("parse_string")
    /\ CASE Top.at = "entry" ->
                Consumed(expect(text, pos_, Code["\""]), LAMBDA p : Loop("loop", p))
         [] Top.at = "loop" ->
                IF peek(text, pos_) = Code["\""]
                THEN Consumed(expect(text, pos_, Code["\""]), LAMBDA p : Callers)
                ELSE IF peek(text, pos_) = Code["NUL"]
                THEN Raise(ParseError("unterminated string", pos_, pos_))
                ELSE IF peek(text, pos_) = Code["\\"]
                THEN Move(pos_ + 1, Goto("escape"))
                ELSE Consumed(string_char(text, pos_), LAMBDA p : Loop("loop", p))
         [] Top.at = "escape" ->
                IF ~consume(text, pos_).ok THEN Raise(consume(text, pos_))
                ELSE IF consume(text, pos_).val \in simple_escapes
                THEN Move(pos_ + 1, Loop("loop", pos_ + 1))
                ELSE IF consume(text, pos_).val = Code["u"]
                THEN Move(pos_ + 1, HexLoop(0))
                ELSE Raise(ParseError("invalid escape sequence", pos_, pos_ + 1))
         [] Top.at = "hex" ->
                IF ~isxdigit(peek(text, pos_))
                THEN Raise(ParseError("invalid unicode escape", pos_, pos_))
                ELSE Consumed(consume(text, pos_), LAMBDA p :
                         IF Top.i + 1 < HexDigits THEN HexLoop(Top.i + 1) ELSE Loop("loop", p))

\* arr.push_back(parse_value()) at the top of an iteration that begins at p
Element(p) == Append(Loop("after element", p), Frame("parse_value", p))

\* JsonValue parse_array()
StepParseArray ==
    /\ In("parse_array")
    /\ CASE Top.at = "entry" ->
                Consumed(expect(text, pos_, Code["["]), LAMBDA p : Goto("first"))
         [] Top.at = "first" ->
                IF peek(text, pos_) = Code["]"]
                THEN Move(pos_ + 1, Callers)
                ELSE Move(pos_, Element(pos_))
         [] Top.at = "after element" ->
                IF peek(text, pos_) = Code["]"]
                THEN Move(pos_ + 1, Callers)
                ELSE Consumed(expect(text, pos_, Code[","]), LAMBDA p : Goto("after comma"))
         [] Top.at = "after comma" -> Move(pos_, Element(pos_))

\* JsonValue parse_object()
StepParseObject ==
    /\ In("parse_object")
    /\ CASE Top.at = "entry" ->
                Consumed(expect(text, pos_, Code["{"]), LAMBDA p : Goto("first"))
         [] Top.at = "first" ->
                IF peek(text, pos_) = Code["}"]
                THEN Move(pos_ + 1, Callers)
                ELSE Move(pos_, Loop("key", pos_))
         [] Top.at = "key" ->
                IF peek(text, pos_) # Code["\""]
                THEN Raise(ParseError("expected string key", pos_, pos_))
                ELSE Move(pos_, Append(Goto("after key"), Frame("parse_string", pos_)))
         [] Top.at = "after key" ->
                Consumed(expect(text, pos_, Code[":"]), LAMBDA p :
                    Append(Goto("after member"), Frame("parse_value", p)))
         [] Top.at = "after member" ->
                IF peek(text, pos_) = Code["}"]
                THEN Move(pos_ + 1, Callers)
                ELSE Consumed(expect(text, pos_, Code[","]), LAMBDA p : Loop("key", p))

NextCursor ==
    \/ StepSkipWhitespace
    \/ StepParse
    \/ StepParseValue
    \/ StepParseNull
    \/ StepParseBool
    \/ StepParseNumber
    \/ StepParseString
    \/ StepParseArray
    \/ StepParseObject

SpecCursor == InitCursor /\ [][NextCursor]_vars

(***************************************************************************)
(* The JSON grammar of the specification (section 4.2, RFC 8259), written  *)
(* as a recognizer of texts that is independent of the parser.             *)
(***************************************************************************)
G_Ws == {Code[" "], Code["TAB"], Code["LF"], Code["CR"]}
G_Digit == {Code[c] : c \in {"0", "1", "2", "3", "4", "5", "6", "7", "8", "9"}}
G_Hex == G_Digit \cup {Code[c] : c \in {"a", "b", "c", "d", "e", "f", "A", "B", "C", "D", "E", "F"}}
G_Escapes == {Code[c] : c \in {"\"", "\\", "/", "n", "r", "t", "b", "f"}}

G_TrimWs(s) ==
    LET idx == {i \in 1..Len(s) : s[i] \notin G_Ws}
    IN  IF idx = {} THEN <<>>
        ELSE SubSeq(s, CHOOSE i \in idx : \A j \in idx : i <= j,
                       CHOOSE i \in idx : \A j \in idx : i >= j)

G_Digits(u) == \A i \in 1..Len(u) : u[i] \in G_Digit

G_IntPart(u) ==
    \/ u = <<Code["0"]>>
    \/ Len(u) >= 1 /\ u[1] \in (G_Digit \ {Code["0"]}) /\ G_Digits(u)

G_FracPart(u) ==
    \/ u = <<>>
    \/ Len(u) >= 2 /\ u[1] = Code["."] /\ G_Digits(Tail(u))

G_ExpPart(u) ==
    \/ u = <<>>
    \/ /\ Len(u) >= 2
       /\ u[1] \in {Code["e"], Code["E"]}
       /\ LET v == Tail(u)
              w == IF v[1] \in {Code["+"], Code["-"]} THEN Tail(v) ELSE v
          IN  Len(w) >= 1 /\ G_Digits(w)

G_Number(t) ==
    LET n == Len(t)
        s0 == IF n > 0 /\ t[1] = Code["-"] THEN 1 ELSE 0
    IN  \E i \in (s0 + 1)..n : \E j \in i..n :
            /\ G_IntPart(SubSeq(t, s0 + 1, i))
            /\ G_FracPart(SubSeq(t, i + 1, j))
            /\ G_ExpPart(SubSeq(t, j + 1, n))

RECURSIVE G_Body(_)
\* the characters between the quotes of a string
G_Body(b) ==
    \/ b = <<>>
    \/ /\ b # <<>>
       /\ b[1] \notin {Code["\""], Code["\\"]}
       /\ b[1] >= Code[" "]
       /\ G_Body(Tail(b))
    \/ /\ Len(b) >= 2
       /\ b[1] = Code["\\"]
       /\ b[2] \in G_Escapes
       /\ G_Body(SubSeq(b, 3, Len(b)))
    \/ /\ Len(b) >= 6
       /\ b[1] = Code["\\"]
       /\ b[2] = Code["u"]
       /\ \A i \in 3..6 : b[i] \in G_Hex
       /\ G_Body(SubSeq(b, 7, Len(b)))

G_String(t) ==
    /\ Len(t) >= 2
    /\ t[1] = Code["\""]
    /\ t[Len(t)] = Code["\""]
    /\ G_Body(SubSeq(t, 2, Len(t) - 1))

RECURSIVE G_Value(_)
RECURSIVE G_Elements(_)
RECURSIVE G_Members(_)

G_Array(t) ==
    /\ Len(t) >= 2
    /\ t[1] = Code["["]
    /\ t[Len(t)] = Code["]"]
    /\ LET inner == SubSeq(t, 2, Len(t) - 1)
       IN  G_TrimWs(inner) = <<>> \/ G_Elements(inner)

G_Member(u) ==
    \E k \in 1..Len(u) :
        /\ u[k] = Code[":"]
        /\ G_String(G_TrimWs(SubSeq(u, 1, k - 1)))
        /\ G_Value(G_TrimWs(SubSeq(u, k + 1, Len(u))))

G_Object(t) ==
    /\ Len(t) >= 2
    /\ t[1] = Code["{"]
    /\ t[Len(t)] = Code["}"]
    /\ LET inner == SubSeq(t, 2, Len(t) - 1)
       IN  G_TrimWs(inner) = <<>> \/ G_Members(inner)

G_Elements(u) ==
    \/ G_Value(G_TrimWs(u))
    \/ \E k \in 1..Len(u) :
          /\ u[k] = Code[","]
          /\ G_Value(G_TrimWs(SubSeq(u, 1, k - 1)))
          /\ G_Elements(SubSeq(u, k + 1, Len(u)))

G_Members(u) ==
    \/ G_Member(u)
    \/ \E k \in 1..Len(u) :
          /\ u[k] = Code[","]
          /\ G_Member(SubSeq(u, 1, k - 1))
          /\ G_Members(SubSeq(u, k + 1, Len(u)))

G_Value(t) ==
    \/ t = Txt(<<"n", "u", "l", "l">>)
    \/ t = Txt(<<"t", "r", "u", "e">>)
    \/ t = Txt(<<"f", "a", "l", "s", "e">>)
    \/ G_Number(t)
    \/ G_String(t)
    \/ G_Array(t)
    \/ G_Object(t)

\* a JSON text: one value surrounded by optional whitespace
G_Text(s) == G_Value(G_TrimWs(s))

RECURSIVE SameTree(_, _)
\* same variant tree with numerically equal scalars
SameTree(v, w) ==
    /\ v.type = w.type
    /\ IF is_number(v) THEN DoubleEq(v.n, w.n)
       ELSE IF is_array(v)
       THEN Len(v.a) = Len(w.a) /\ \A i \in 1..Len(v.a) : SameTree(v.a[i], w.a[i])
       ELSE IF is_object(v)
       THEN /\ {en.k : en \in v.o} = {en.k : en \in w.o}
            /\ \A en \in v.o : \A fn \in w.o : en.k = fn.k => SameTree(en.v, fn.v)
       ELSE v = w

(***************************************************************************)
(* C1: round trip.  For every valid JSON text T, parse(dump(parse(T)))     *)
(* succeeds and yields the same tree as parse(T), with equal scalars, for  *)
(* compact and for indented dump.                                          *)
(***************************************************************************)
C1_RoundTrip ==
    (pc = "reparsed" /\ G_Text(text)) => (res2.ok /\ SameTree(res2.val, res.val))

(***************************************************************************)
(* C2: every text that matches the JSON grammar parses to a value; parse   *)
(* raises no error of any kind on it, whatever the exponent of a number.   *)
(***************************************************************************)
C2_ValidTextParses ==
    (pc # "start" /\ G_Text(text)) => res.ok

(***************************************************************************)
(* C3: for every text, parse returns a value or fails with a ParseError    *)
(* that carries a message and a byte offset into the text; it fails with   *)
(* no other kind of error.                                                 *)
(***************************************************************************)
C3_ValueOrParseError ==
    pc # "start" =>
        \/ res.ok
        \/ /\ res.kind = "ParseError"
           /\ res.msg # ""
           /\ res.position \in 0..Len(text)
           /\ res.val = JsonValue_null

(***************************************************************************)
(* C4: after one top-level value and trailing whitespace (space, tab,      *)
(* line feed, carriage return) parse requires end of input; when another   *)
(* byte remains, parse fails with a ParseError positioned at the first     *)
(* byte after the value that is not whitespace.                            *)
(***************************************************************************)
RECURSIVE G_SkipWs(_, _)
G_SkipWs(s, p) == IF p < Len(s) /\ s[p + 1] \in G_Ws THEN G_SkipWs(s, p + 1) ELSE p

C4_TrailingContent ==
    pc # "start" =>
        LET v == parse_value(text, 0)
        IN  (v.ok /\ G_SkipWs(text, v.pos) < Len(text)) =>
                /\ ~res.ok
                /\ res.kind = "ParseError"
                /\ res.position = G_SkipWs(text, v.pos)

(***************************************************************************)
(* C5: a text made of the characters of numbers only is accepted, as a     *)
(* Number, exactly when it matches the number grammar; every other such    *)
(* text fails with a ParseError.                                           *)
(***************************************************************************)
G_NumberChars == G_Digit \cup {Code[c] : c \in {"-", "+", ".", "e", "E"}}

C5_NumberGrammar ==
    (pc # "start" /\ text # <<>> /\ \A i \in 1..Len(text) : text[i] \in G_NumberChars) =>
        IF G_Number(text)
        THEN res.ok /\ is_number(res.val)
        ELSE ~res.ok /\ res.kind = "ParseError"

(***************************************************************************)
(* C6: between the quotes of a string, a backslash followed by one of      *)
(* " \ / n r t b f decodes to the one character it names; a backslash      *)
(* followed by any other character except u fails with the ParseError      *)
(* "invalid escape sequence" at the offset of that character.              *)
(***************************************************************************)
G_Unescape(c) ==
    CASE c = Code["n"] -> 10
      [] c = Code["r"] -> 13
      [] c = Code["t"] -> 9
      [] c = Code["b"] -> 8
      [] c = Code["f"] -> 12
      [] OTHER -> c

RECURSIVE G_SimpleBody(_)
\* a string body whose escapes are all one-letter escapes
G_SimpleBody(b) ==
    \/ b = <<>>
    \/ /\ b # <<>>
       /\ b[1] \notin {Code["\""], Code["\\"]}
       /\ b[1] >= Code[" "]
       /\ G_SimpleBody(Tail(b))
    \/ /\ Len(b) >= 2
       /\ b[1] = Code["\\"]
       /\ b[2] \in G_Escapes
       /\ G_SimpleBody(SubSeq(b, 3, Len(b)))

RECURSIVE G_Decode(_)
G_Decode(b) ==
    IF b = <<>> THEN <<>>
    ELSE IF b[1] = Code["\\"]
         THEN <<G_Unescape(b[2])>> \o G_Decode(SubSeq(b, 3, Len(b)))
         ELSE <<b[1]>> \o G_Decode(Tail(b))

C6_Escapes ==
    (pc # "start" /\ Len(text) >= 2 /\ text[1] = Code["\""]) =>
        /\ (text[Len(text)] = Code["\""] /\ G_SimpleBody(SubSeq(text, 2, Len(text) - 1))) =>
               /\ res.ok
               /\ is_string(res.val)
               /\ res.val.s = G_Decode(SubSeq(text, 2, Len(text) - 1))
        /\ \A i \in 2..(Len(text) - 1) :
               (/\ G_Body(SubSeq(text, 2, i - 1))
                /\ text[i] = Code["\\"]
                /\ text[i + 1] \notin (G_Escapes \cup {Code["u"]})) =>
                   /\ ~res.ok
                   /\ res.kind = "ParseError"
                   /\ res.msg = "invalid escape sequence"
                   /\ res.position = i

C6_Witness ==
    /\ pc = "parsed"
    /\ text = Txt(<<"\"", "\\", "b", "\\", "f", "\\", "/", "\"">>)
    /\ res.ok
    /\ res.val.s = <<8, 12, Code["/"]>>

(***************************************************************************)
(* C7: the input ends before the closing quote of a string.  r is the text *)
(* after the opening quote; it ends where a character or the closing quote *)
(* is expected, right after a backslash, or inside a \uXXXX escape.        *)
(***************************************************************************)
C7_EndsAtChar(r) == G_Body(r)

C7_EndsAfterBackslash(r) ==
    /\ Len(r) >= 1
    /\ r[Len(r)] = Code["\\"]
    /\ G_Body(SubSeq(r, 1, Len(r) - 1))

C7_EndsInUnicode(r) ==
    \E k \in 0..3 :
        /\ Len(r) >= k + 2
        /\ r[Len(r) - k - 1] = Code["\\"]
        /\ r[Len(r) - k] = Code["u"]
        /\ \A i \in (Len(r) - k + 1)..Len(r) : r[i] \in G_Hex
        /\ G_Body(SubSeq(r, 1, Len(r) - k - 2))

\* C7 as stated: in each of the three cases parse fails with the ParseError
\* "unterminated string".
C7_Unterminated ==
    (/\ pc # "start" /\ text # <<>> /\ text[1] = Code["\""]
     /\ \/ C7_EndsAtChar(Tail(text))
        \/ C7_EndsAfterBackslash(Tail(text))
        \/ C7_EndsInUnicode(Tail(text))) =>
            ~res.ok /\ res.kind = "ParseError" /\ res.msg = "unterminated string"

\* C7 amended: in each of the three cases parse fails with a ParseError; its
\* message is "unterminated string" when the input ends where a character or
\* the closing quote is expected, "unexpected end of input" when it ends right
\* after a backslash, and "invalid unicode escape" when it ends inside \uXXXX.
C7_UnterminatedByCase ==
    (pc # "start" /\ text # <<>> /\ text[1] = Code["\""]) =>
        /\ C7_EndsAtChar(Tail(text)) =>
               ~res.ok /\ res.kind = "ParseError" /\ res.msg = "unterminated string"
        /\ C7_EndsAfterBackslash(Tail(text)) =>
               ~res.ok /\ res.kind = "ParseError" /\ res.msg = "unexpected end of input"
        /\ C7_EndsInUnicode(Tail(text)) =>
               ~res.ok /\ res.kind = "ParseError" /\ res.msg = "invalid unicode escape"

C7_Witness ==
    /\ pc = "parsed"
    /\ text = Txt(<<"\"", "x", "\\">>)
    /\ C7_EndsAfterBackslash(Tail(text))
    /\ res.kind = "ParseError"
    /\ res.msg = "unexpected end of input"

(***************************************************************************)
(* C8: separators of arrays and objects.  The text is taken as its         *)
(* sequence of tokens; a defect is one edit away from a valid text: a      *)
(* comma too many, a comma or a colon or a closing bracket too few, a key  *)
(* that is not a string.                                                   *)
(***************************************************************************)
Comma == T(<<",">>)
Colon == T(<<":">>)
Space == T(<<" ">>)

RemoveAt(w, i) == SubSeq(w, 1, i - 1) \o SubSeq(w, i + 1, Len(w))
\* t inserted after the i-th token
InsertAt(w, i, t) == SubSeq(w, 1, i) \o <<t>> \o SubSeq(w, i + 1, Len(w))
ReplaceAt(w, i, t) == [w EXCEPT ![i] = t]

RECURSIVE PrevTok(_, _)
\* the nearest token before the i-th that is not a space, <<>> when there is none
PrevTok(w, i) ==
    IF i <= 1 THEN <<>>
    ELSE IF w[i - 1] = Space THEN PrevTok(w, i - 1) ELSE w[i - 1]

RECURSIVE NextTok(_, _)
NextTok(w, i) ==
    IF i >= Len(w) THEN <<>>
    ELSE IF w[i + 1] = Space THEN NextTok(w, i + 1) ELSE w[i + 1]

G_Valid(w) == G_Text(Flat(w))

EndsValue(t) == t \in {T(<<"]">>), T(<<"}">>)} \/ G_Value(t)
StartsValue(t) == t \in {T(<<"[">>), T(<<"{">>)} \/ G_Value(t)

\* a comma next to an opening or closing bracket or to another comma
ExtraComma(w) ==
    \E i \in 1..Len(w) :
        /\ w[i] = Comma
        /\ \/ PrevTok(w, i) \in {T(<<"[">>), T(<<"{">>), Comma}
           \/ NextTok(w, i) \in {T(<<"]">>), T(<<"}">>), Comma}
        /\ G_Valid(RemoveAt(w, i))

\* a comma before the closing bracket or brace
TrailingComma(w) ==
    \E i \in 1..Len(w) :
        /\ w[i] = Comma
        /\ NextTok(w, i) \in {T(<<"]">>), T(<<"}">>)}
        /\ G_Valid(RemoveAt(w, i))

\* two elements with no comma between them (two numbers with nothing between
\* them are one number)
MissingComma(w) ==
    \E i \in 1..(Len(w) - 1) :
        /\ EndsValue(w[i])
        /\ StartsValue(NextTok(w, i))
        /\ ~(G_Number(w[i]) /\ G_Number(w[i + 1]))
        /\ G_Valid(InsertAt(w, i, Comma))

NonStringKey(w) ==
    \E i \in 1..Len(w) :
        /\ w[i] # Space
        /\ w[i][1] # Code["\""]
        /\ NextTok(w, i) = Colon
        /\ G_Valid(ReplaceAt(w, i, KeyA))

MissingColon(w) ==
    \E i \in 1..Len(w) :
        /\ G_String(w[i])
        /\ G_Valid(InsertAt(w, i, Colon))

MissingClose(w) ==
    \/ G_Valid(Append(w, T(<<"]">>)))
    \/ G_Valid(Append(w, T(<<"}">>)))

ObjMembers(w) ==
    [j \in 1..((Len(w) - 1) \div 4) |->
        [k |-> SubSeq(w[4 * j - 2], 2, Len(w[4 * j - 2]) - 1), v |-> w[4 * j]]]

HasDuplicateKey(ms) == \E i, j \in 1..Len(ms) : i < j /\ ms[i].k = ms[j].k

LastValueText(ms, key) ==
    ms[CHOOSE j \in 1..Len(ms) :
           ms[j].k = key /\ \A l \in (j + 1)..Len(ms) : ms[l].k # key].v

C9_DuplicateKeys ==
    (pc # "start" /\ toks \in ObjWords /\ HasDuplicateKey(ObjMembers(toks))) =>
        LET ms == ObjMembers(toks)
            keys == {ms[j].k : j \in 1..Len(ms)}
        IN  /\ res.ok
            /\ is_object(res.val)
            /\ Cardinality(res.val.o) = Cardinality(keys)
            /\ \A key \in keys :
                  /\ Cardinality({en \in res.val.o : en.k = key}) = 1
                  /\ \A en \in res.val.o :
                        en.k = key => en.v = parse(LastValueText(ms, key)).val

C9_Witness ==
    /\ pc = "parsed"
    /\ text = Txt(<<"{", "\"", "a", "\"", ":", "1", ",", "\"", "a", "\"", ":", "2", "}">>)
    /\ res.ok
    /\ res.val.o = {[k |-> Txt(<<"a">>),
                     v |-> JsonValue_number([neg |-> FALSE, m |-> 2, e |-> 0])]}

(***************************************************************************)
(* C10: an array text with n elements parses to an Array of size n whose   *)
(* i-th element is the parse of the i-th element text; the compact dump is *)
(* the dumps of the elements in that order, and the parse of any dump has  *)
(* the elements in that order.                                             *)
(***************************************************************************)
\* the element texts of an array word
ArrElems(w) == [j \in 1..((Len(w) - 1) \div 2) |-> w[2 * j]]

RECURSIVE JoinDumps(_)
JoinDumps(es) ==
    IF es = <<>> THEN <<>>
    ELSE IF Len(es) = 1 THEN dump(parse(es[1]).val, -1, <<>>)
    ELSE dump(parse(es[1]).val, -1, <<>>) \o <<Code[","]>> \o JoinDumps(Tail(es))

TypeMismatch(r) ==
    /\ ~r.ok
    /\ r.kind = "std::runtime_error"
    /\ r.msg \in {"not a bool", "not a number", "not a string", "not an array",
                  "not an object"}

\* the type an accessor asks for
Requested(op) ==
    CASE op = "as_bool" -> "bool"
      [] op = "as_number" -> "number"
      [] op = "as_string" -> "string"
      [] op \in {"as_array", "as_array const"} -> "array"
      [] op \in {"as_object", "as_object const"} -> "object"

AccessorOps ==
    {"as_bool", "as_number", "as_string", "as_array", "as_array const", "as_object",
     "as_object const"}

\* what a successful accessor returned, as a tree, in the heap h
Returned(h, op, val) ==
    CASE Requested(op) = "bool" -> JsonValue_bool(val)
      [] Requested(op) = "number" -> JsonValue_number(val)
      [] Requested(op) = "string" -> JsonValue_string(val)
      [] Requested(op) = "array" ->
             JsonValue_array([i \in 1..Len(val) |-> Tree(h, val[i])])
      [] Requested(op) = "object" ->
             JsonValue_object({[k |-> en.k, v |-> Tree(h, en.v)] : en \in val})

\* va and vb denote the same trees after the step as before it
ValuesUnchanged ==
    /\ Tree(heap', va') = Tree(heap, va)
    /\ Tree(heap', vb') = Tree(heap, vb)

\* C11: a typed accessor (as_bool, as_number, as_string, as_array, as_object, the
\* last two const and mutable) returns the stored content when the Value holds the
\* requested variant and fails with a type-mismatch error otherwise, without
\* converting one variant into another; the call leaves the Value as it was.
C11_TypedAccessors ==
    [][ret'.op \in AccessorOps /\ vpc' = "read" =>
          /\ ValuesUnchanged
          /\ IF Tree(heap, Val(ret'.on)).type = Requested(ret'.op)
             THEN /\ ret'.ok
                  /\ Returned(heap', ret'.op, ret'.val) = Tree(heap, Val(ret'.on))
             ELSE TypeMismatch(ret')]_vars

\* as_number has refused a Bool, which is still the Bool it was
C11_Witness ==
    /\ ret.op = "as_number"
    /\ ~ret.ok
    /\ Val(ret.on) = JsonValue_bool(TRUE)

KeyNotFound(r) == ~r.ok /\ r.kind = "std::out_of_range" /\ r.msg = "unordered_map::at"

\* the keys of an Object tree, and the value it holds for a key
KeysOf(t) == {en.k : en \in t.o}
ValueAt(t, key) == (CHOOSE en \in t.o : en.k = key).v

\* C12: on an Object, the const operator[](k) fails with a key-not-found error when k
\* is missing and changes neither the keys nor the size; the mutable operator[](k)
\* inserts k with a Null value when k is missing (the size grows by one), returns a
\* reference to that value, and a later const access to k succeeds; when k is
\* present, both forms return its value and leave the size as it was.
C12_KeyAccess ==
    [][/\ ret'.op = "[key] const" /\ vpc' = "read" /\ Tree(heap, Val(ret'.on)).type = "object" =>
            /\ ValuesUnchanged
            /\ IF ret'.arg \in KeysOf(Tree(heap, Val(ret'.on)))
               THEN /\ ret'.ok
                    /\ Tree(heap', ret'.val) = ValueAt(Tree(heap, Val(ret'.on)), ret'.arg)
               ELSE KeyNotFound(ret')
       /\ ret'.op = "[key]" /\ vpc' = "mutated" /\ Tree(heap, Val(ret'.on)).type = "object" =>
            /\ ret'.ok
            /\ va' = va /\ vb' = vb
            /\ IF ret'.arg \in KeysOf(Tree(heap, Val(ret'.on)))
               THEN /\ Tree(heap', Val(ret'.on)) = Tree(heap, Val(ret'.on))
                    /\ Tree(heap', ret'.val) = ValueAt(Tree(heap, Val(ret'.on)), ret'.arg)
               ELSE /\ Tree(heap', Val(ret'.on)).o =
                           Tree(heap, Val(ret'.on)).o
                               \cup {[k |-> ret'.arg, v |-> JsonValue_null]}
                    /\ size(heap', Val(ret'.on)).val = size(heap, Val(ret'.on)).val + 1
                    /\ ret'.val = JsonValue_null
       /\ /\ ret.op = "[key]" /\ ret.ok
          /\ ret'.op = "[key] const" /\ ret'.on = ret.on /\ ret'.arg = ret.arg
          => ret'.ok /\ Tree(heap', ret'.val) = Tree(heap, ret.val)
      ]_vars

\* the mutable form has inserted the missing key "b" with Null, and the const
\* access to "b" that followed has returned it
C12_Witness ==
    /\ vpc = "read"
    /\ ret.op = "[key] const" /\ ret.arg = Txt(<<"b">>) /\ ret.ok
    /\ ret.val = JsonValue_null
    /\ Tree(heap, Val(ret.on)) =
           JsonValue_object({Entry("a", Num(1)), Entry("b", JsonValue_null)})

IndexOutOfRange(r) ==
    ~r.ok /\ r.kind = "std::out_of_range" /\ r.msg = "vector::_M_range_check"

\* C13: on an Array of n elements, operator[](i), const or mutable, returns element i
\* when i < n and fails with an index-out-of-range error when i >= n; no access,
\* an assignment through the returned reference included, changes the length.
C13_IndexAccess ==
    [][/\ ret'.op \in {"[index]", "[index] const"} /\ vpc' = "read"
          /\ Tree(heap, Val(ret'.on)).type = "array" =>
            /\ ValuesUnchanged
            /\ IF ret'.arg < Len(Tree(heap, Val(ret'.on)).a)
               THEN /\ ret'.ok
                    /\ Tree(heap', ret'.val) = Tree(heap, Val(ret'.on)).a[ret'.arg + 1]
               ELSE IndexOutOfRange(ret')
       /\ ret'.op = "assign" /\ vpc' = "mutated" /\ Len(ret'.arg) = 1
          /\ IsIndexStep(ret'.arg[1]) /\ Tree(heap, Val(ret'.on)).type = "array" =>
            /\ Len(Tree(heap', Val(ret'.on)).a) = Len(Tree(heap, Val(ret'.on)).a)
            /\ IF ret'.arg[1].index < Len(Tree(heap, Val(ret'.on)).a)
               THEN /\ ret'.ok
                    /\ Tree(heap', Val(ret'.on)).a =
                           [Tree(heap, Val(ret'.on)).a EXCEPT ![ret'.arg[1].index + 1] = ret'.val]
               ELSE /\ IndexOutOfRange(ret')
                    /\ Tree(heap', Val(ret'.on)) = Tree(heap, Val(ret'.on))
      ]_vars

\* the mutable operator[](1) has returned the second element of a two-element
\* array, whose first element had been assigned before
C13_Witness ==
    /\ vpc = "read"
    /\ ret.op = "[index]" /\ ret.arg = 1 /\ ret.ok
    /\ Tree(heap, ret.val) = JsonValue_object({Entry("a", Num(3))})
    /\ Tree(heap, Val(ret.on)).a[1] = Num(9)

InvalidOperation(r) ==
    /\ ~r.ok
    /\ r.kind = "std::runtime_error"
    /\ r.msg = "size() only valid for arrays and objects"

\* C14: size() returns the number of elements of an Array and the number of distinct
\* keys of an Object, and fails with an invalid-operation error on a Null, a Bool,
\* a Number or a String.
C14_Size ==
    ret.op = "size" =>
        CASE Tree(heap, Val(ret.on)).type = "array" ->
                 ret.ok /\ ret.val = Len(Tree(heap, Val(ret.on)).a)
          [] Tree(heap, Val(ret.on)).type = "object" ->
                 ret.ok /\ ret.val = Cardinality(KeysOf(Tree(heap, Val(ret.on))))
          [] OTHER -> InvalidOperation(ret)

\* size() has counted the two keys of an Object whose second key was inserted by
\* the mutable operator[]
C14_Witness ==
    /\ ret.op = "size" /\ ret.ok /\ ret.val = 2
    /\ Tree(heap, Val(ret.on)).type = "object"
    /\ KeysOf(Tree(heap, Val(ret.on))) = Keys
    /\ ValueAt(Tree(heap, Val(ret.on)), Txt(<<"b">>)) = JsonValue_null

\* C15: copy construction and copy assignment are deep: the copy equals its source,
\* the source is left as it was, and a later assignment or insertion through
\* operator[] on one of the two, at any depth, leaves the other unchanged;
\* self-assignment leaves the value unchanged.
C15_DeepCopy ==
    [][/\ ret'.op = "copy" /\ vpc' # vpc =>
            /\ ret'.ok
            /\ Tree(heap', vb') = Tree(heap, va)
            /\ Tree(heap', va') = Tree(heap, va)
       /\ ret'.op = "=" /\ vpc' # vpc =>
            /\ ret'.ok
            /\ Tree(heap', IF ret'.on = "va" THEN va' ELSE vb') = Tree(heap, Val(ret'.arg))
            /\ Tree(heap', IF ret'.arg = "va" THEN va' ELSE vb') = Tree(heap, Val(ret'.arg))
       /\ vpc' = "mutated" =>
            Tree(heap', Val(Other(ret'.on))) = Tree(heap, Val(Other(ret'.on)))
      ]_vars

\* vb was copied from va, and an assignment two levels down in vb has changed vb
\* while va still holds the element
C15_Witness ==
    /\ vpc = "mutated"
    /\ ret.op = "assign" /\ ret.on = "vb" /\ ret.ok /\ Len(ret.arg) = 2
    /\ Tree(heap, va) = JsonValue_array(<<JsonValue_array(<<Num(1), Num(2)>>),
                                         JsonValue_object({Entry("a", Num(3))})>>)
    /\ Tree(heap, vb) = JsonValue_array(<<JsonValue_array(<<Num(9), Num(2)>>),
                                         JsonValue_object({Entry("a", Num(3))})>>)

(***************************************************************************)
(* The serializer (section 4.3).                                           *)
(***************************************************************************)
Whitespace == {Code[" "], Code["TAB"], Code["LF"], Code["CR"]}

\* how many of the bytes of s are in S
CountIn(s, S) == Cardinality({i \in 1..Len(s) : s[i] \in S})

RECURSIVE SumOver(_, _)
\* the sum of the numbers of the sequence f over the indices I
SumOver(f, I) ==
    IF I = {} THEN 0
    ELSE LET i == CHOOSE i \in I : TRUE IN f[i] + SumOver(f, I \ {i})

RECURSIVE ContentWhitespace(_)
\* the whitespace bytes that the strings and the keys of v put into its text: a
\* string holds its spaces as they are (its tabs, line feeds and carriage returns
\* are written as escapes), a key holds all its bytes as they are
ContentWhitespace(v) ==
    IF is_string(v) THEN CountIn(v.s, {Code[" "]})
    ELSE IF is_array(v)
    THEN SumOver([i \in 1..Len(v.a) |-> ContentWhitespace(v.a[i])], 1..Len(v.a))
    ELSE IF is_object(v)
    THEN LET ents == iteration(v.o, CHOOSE ord \in Orders(AllKeys(v)) : TRUE)
         IN  SumOver([i \in 1..Len(ents) |->
                          CountIn(ents[i].k, Whitespace) + ContentWhitespace(ents[i].v)],
                     1..Len(ents))
    ELSE 0

RECURSIVE Compact(_, _)
RECURSIVE CompactList(_, _, _)
\* the texts of the elements (or members) i.., a comma between two of them and a
\* colon between a key and its value
CompactList(elems, i, ord) ==
    IF i > Len(elems) THEN <<>>
    ELSE (IF "k" \in DOMAIN elems[i]
          THEN <<Code["\""]>> \o elems[i].k \o <<Code["\""], Code[":"]>>
               \o Compact(elems[i].v, ord)
          ELSE Compact(elems[i], ord))
         \o (IF i < Len(elems) THEN <<Code[","]>> ELSE <<>>)
         \o CompactList(elems, i + 1, ord)

\* the tokens of v, one after the other
Compact(v, ord) ==
    IF is_array(v) THEN <<Code["["]>> \o CompactList(v.a, 1, ord) \o <<Code["]"]>>
    ELSE IF is_object(v)
    THEN <<Code["{"]>> \o CompactList(iteration(v.o, ord), 1, ord) \o <<Code["}"]>>
    ELSE dump(v, -1, ord)

\* C16: dump with a negative indent inserts no whitespace: the text is the tokens of
\* the value one after the other, with ',' between elements and ':' between a key
\* and its value, and its only whitespace bytes are content of the strings and of
\* the keys of the value.
C16_Compact ==
    (pc = "dumped" /\ dump_indent < 0) =>
        /\ \E ord \in Orders(AllKeys(res.val)) : dumped = Compact(res.val, ord)
        /\ CountIn(dumped, Whitespace) = ContentWhitespace(res.val)

\* a compact dump of an array of two elements whose only whitespace is the space
\* inside its string
C16_Witness ==
    /\ pc = "dumped"
    /\ dump_indent = -2
    /\ is_array(res.val) /\ Len(res.val.a) = 2
    /\ dumped = Txt(<<"[", "\"", "a", " ", "b", "\"", ",", "1", "]">>)

Spaces(n) == [i \in 1..n |-> Code[" "]]

RECURSIVE Pretty(_, _, _, _)
RECURSIVE PrettyLines(_, _, _, _, _)
\* the lines of the elements (or members) i.. of a container whose elements are at
\* depth d: each on a line of its own after d * indent spaces, a comma after
\* each but the last, one space after the colon of a member
PrettyLines(elems, i, indent, d, ord) ==
    IF i > Len(elems) THEN <<>>
    ELSE <<Code["LF"]>> \o Spaces(d * indent)
         \o (IF "k" \in DOMAIN elems[i]
             THEN <<Code["\""]>> \o elems[i].k \o <<Code["\""], Code[":"], Code[" "]>>
                  \o Pretty(elems[i].v, indent, d + 1, ord)
             ELSE Pretty(elems[i], indent, d + 1, ord))
         \o (IF i < Len(elems) THEN <<Code[","]>> ELSE <<>>)
         \o PrettyLines(elems, i + 1, indent, d, ord)

\* the indented text of v, the elements of v at depth d
Pretty(v, indent, d, ord) ==
    IF is_array(v)
    THEN IF v.a = <<>> THEN Txt(<<"[", "]">>)
         ELSE <<Code["["]>> \o PrettyLines(v.a, 1, indent, d, ord)
              \o <<Code["LF"]>> \o Spaces((d - 1) * indent) \o <<Code["]"]>>
    ELSE IF is_object(v)
    THEN IF v.o = {} THEN Txt(<<"{", "}">>)
         ELSE <<Code["{"]>> \o PrettyLines(iteration(v.o, ord), 1, indent, d, ord)
              \o <<Code["LF"]>> \o Spaces((d - 1) * indent) \o <<Code["}"]>>
    ELSE dump(v, -1, ord)

\* C17: dump with indent >= 0 writes each element of a non-empty array or object at
\* depth d on a line of its own after exactly d * indent spaces, the closing bracket
\* on a line of its own after (d - 1) * indent spaces, exactly one space after each
\* ':', and an empty container as "[]" or "{}".
C17_Indented ==
    (pc = "dumped" /\ dump_indent >= 0) =>
        \E ord \in Orders(AllKeys(res.val)) : dumped = Pretty(res.val, dump_indent, 1, ord)

\* {"a":{"b":[true]}} dumped with indent 2: three depths, each closing bracket on
\* its own line
C17_Witness ==
    /\ pc = "dumped"
    /\ dump_indent = 2
    /\ dumped = Txt(<<"{", "LF",
                      " ", " ", "\"", "a", "\"", ":", " ", "{", "LF",
                      " ", " ", " ", " ", "\"", "b", "\"", ":", " ", "[", "LF",
                      " ", " ", " ", " ", " ", " ", "t", "r", "u", "e", "LF",
                      " ", " ", " ", " ", "]", "LF",
                      " ", " ", "}", "LF",
                      "}">>)

\* the five bytes that are written as escapes, and the letter of each
EscapedBytes ==
    (Code["\""] :> Code["\""]) @@ (Code["\\"] :> Code["\\"]) @@ (Code["LF"] :> Code["n"])
    @@ (Code["CR"] :> Code["r"]) @@ (Code["TAB"] :> Code["t"])

RECURSIVE Escaped(_)
Escaped(s) ==
    IF s = <<>> THEN <<>>
    ELSE (IF s[1] \in DOMAIN EscapedBytes THEN <<Code["\\"], EscapedBytes[s[1]]>>
          ELSE <<s[1]>>)
         \o Escaped(Tail(s))

\* C18: the dump of a String is its bytes between two quotes, where each of the
\* bytes quote, backslash, line feed, carriage return and tab is replaced by its
\* two-character escape and every other byte, those of multi-byte UTF-8 sequences
\* included, is copied unchanged.
C18_StringDump ==
    (pc = "dumped" /\ is_string(res.val)) =>
        dumped = <<Code["\""]>> \o Escaped(res.val.s) \o <<Code["\""]>>

\* the String of a quote, a backslash, a carriage return and a tab, written with
\* four escapes
C18_Witness ==
    /\ pc = "dumped"
    /\ is_string(res.val)
    /\ res.val.s = Txt(<<"\"", "\\", "CR", "TAB">>)
    /\ dumped = Txt(<<"\"", "\\", "\"", "\\", "\\", "\\", "r", "\\", "t", "\"">>)

(***************************************************************************)
(* Unicode escapes and whitespace (section 4.2).                           *)
(***************************************************************************)
HexValue(c) ==
    IF c \in Code["0"]..Code["9"] THEN c - Code["0"]
    ELSE IF c \in Code["a"]..Code["f"] THEN 10 + c - Code["a"]
    ELSE 10 + c - Code["A"]

\* the code point of the four hex digits at s[i]..s[i + 3]
CodePoint(s, i) ==
    4096 * HexValue(s[i]) + 256 * HexValue(s[i + 1]) + 16 * HexValue(s[i + 2])
        + HexValue(s[i + 3])

\* c >> n and c & 0x3F on code points
Shr(c, n) == c \div (2 ^ n)
Low6(c) == c % 64

Utf8(c) ==
    IF c < 128 THEN <<c>>
    ELSE IF c < 2048 THEN <<192 + Shr(c, 6), 128 + Low6(c)>>
    ELSE <<224 + Shr(c, 12), 128 + Low6(Shr(c, 6)), 128 + Low6(c)>>

\* how many hex digits the text has from position i on, four at most
HexRun(s, i) ==
    CHOOSE n \in 0..4 :
        /\ \A j \in i..(i + n - 1) : j <= Len(s) /\ s[j] \in G_Hex
        /\ n < 4 => (i + n > Len(s) \/ s[i + n] \notin G_Hex)

StartsWithUnicodeEscape(s) ==
    Len(s) >= 3 /\ s[1] = Code["\""] /\ s[2] = Code["\\"] /\ s[3] = Code["u"]

\* C19: a \uXXXX escape with exactly four hex digits decodes to the code point c of
\* the digits and appends the UTF-8 encoding of c: one byte below 0x80, two bytes
\* below 0x800, three bytes otherwise; an escape with fewer than four hex digits
\* fails with a ParseError.
C19_UnicodeEscape ==
    (pc = "parsed" /\ StartsWithUnicodeEscape(text)) =>
        /\ (HexRun(text, 4) = 4 /\ Len(text) = 8 /\ text[8] = Code["\""]) =>
               /\ res.ok
               /\ is_string(res.val)
               /\ res.val.s = Utf8(CodePoint(text, 4))
               /\ Len(res.val.s) = (IF CodePoint(text, 4) < 128 THEN 1
                                    ELSE IF CodePoint(text, 4) < 2048 THEN 2 ELSE 3)
        /\ HexRun(text, 4) < 4 => ~res.ok /\ res.kind = "ParseError"

\* the escape of U+07FF has been decoded to the two bytes 0xDF 0xBF
C19_Witness ==
    /\ pc = "parsed"
    /\ text = Txt(<<"\"", "\\", "u", "0", "7", "F", "F", "\"">>)
    /\ res.ok
    /\ res.val = JsonValue_string(<<223, 191>>)

WsToks == {T(<<c>>) : c \in {" ", "TAB", "LF", "CR"}}
OtherSpaceToks == {T(<<c>>) : c \in {"VT", "FF"}}

\* the tokens of w without the whitespace between them
Stripped(w) == SelectSeq(w, LAMBDA t : t \notin WsToks)

\* no whitespace of w stands between two tokens that would read as one without it
SeparatesTokens(w) ==
    \A i \in 1..(Len(Stripped(w)) - 1) :
        ~(Stripped(w)[i][1] \in G_Digit /\ Stripped(w)[i + 1][1] \in G_Digit)

\* inserting space, tab, carriage return or line feed between the tokens of a valid
\* text does not change the parsed tree
C20_InsertedWhitespace ==
    (pc = "parsed" /\ Stripped(toks) # toks /\ SeparatesTokens(toks)
        /\ G_Valid(Stripped(toks))) =>
        LET p == parse(Flat(Stripped(toks)))
        IN  /\ res.ok = p.ok
            /\ p.ok => SameTree(res.val, p.val)

\* C20: the parser skips space, tab, carriage return and line feed between any two
\* tokens, so inserting them between the tokens of a valid text does not change the
\* parsed tree; it skips no other byte: a vertical tab or a form feed between
\* tokens is a ParseError.
C20_Whitespace ==
    /\ C20_InsertedWhitespace
    /\ (pc = "parsed" /\ \E i \in 2..(Len(toks) - 1) : toks[i] \in OtherSpaceToks) =>
           ~res.ok /\ res.kind = "ParseError"

\* C25: the mutable operator[](key) on a Value that holds no Object, a default
\* constructed Null included, fails with a type-mismatch error and leaves the
\* variant and the content of the Value as they were: the Value does not become an
\* Object.  The same holds when the operator is the first subscript of an
\* assignment.
C25_KeyOnNonObject ==
    [][/\ vpc' = "mutated"
       /\ \/ ret'.op = "[key]"
          \/ ret'.op = "assign" /\ ~IsIndexStep(ret'.arg[1])
       /\ Tree(heap, Val(ret'.on)).type # "object"
       => /\ TypeMismatch(ret')
          /\ ret'.msg = "not an object"
          /\ ValuesUnchanged
          /\ va' = va /\ vb' = vb
      ]_vars

\* the mutable operator[]("a") has failed on the default constructed vb, which is
\* still Null
C25_Witness ==
    /\ vpc = "mutated"
    /\ ret.op = "[key]" /\ ret.on = "vb" /\ ret.arg = Txt(<<"a">>)
    /\ ~ret.ok /\ ret.msg = "not an object"
    /\ vb = JsonValue_null

RECURSIVE CompactEscaped(_, _)
RECURSIVE CompactEscapedList(_, _, _)
\* the compact text of the elements (or members) i.., each key written with the
\* escapes of a String
CompactEscapedList(elems, i, ord) ==
    IF i > Len(elems) THEN <<>>
    ELSE (IF "k" \in DOMAIN elems[i]
          THEN <<Code["\""]>> \o Escaped(elems[i].k) \o <<Code["\""], Code[":"]>>
               \o CompactEscaped(elems[i].v, ord)
          ELSE CompactEscaped(elems[i], ord))
         \o (IF i < Len(elems) THEN <<Code[","]>> ELSE <<>>)
         \o CompactEscapedList(elems, i + 1, ord)

CompactEscaped(v, ord) ==
    IF is_array(v)
    THEN <<Code["["]>> \o CompactEscapedList(v.a, 1, ord) \o <<Code["]"]>>
    ELSE IF is_object(v)
    THEN <<Code["{"]>> \o CompactEscapedList(iteration(v.o, ord), 1, ord) \o <<Code["}"]>>
    ELSE dump(v, -1, ord)

\* C21: the text that dump produces for a tree built by parse is accepted by parse
\* and parses back to an equal tree; the keys of an object are written with the
\* escapes of a String ('"', '\' and the control characters line feed, carriage
\* return and tab as two-character escapes).
C21_DumpParsesBack ==
    /\ pc = "reparsed" => (res2.ok /\ SameTree(res2.val, res.val))
    /\ (pc = "dumped" /\ dump_indent < 0) =>
           \E ord \in Orders(AllKeys(res.val)) : dumped = CompactEscaped(res.val, ord)

\* C22: after any sequence of construction, copy, move construction, move
\* assignment and assignment through operator[], every Value that reports
\* is_array() or is_object(), a moved-from Value included, owns a live container,
\* and no call of size(), as_array(), as_object(), operator[] or the copy
\* operations on it dereferences a null pointer.
C22_LiveContainers ==
    /\ \A x \in Roots :
           (is_array(Val(x)) \/ is_object(Val(x))) => Val(x).ptr \in 1..Len(heap)
    /\ ret.kind \notin UndefinedOutcomes

(***************************************************************************)
(* C23, C24: the cursor of the parser                                      *)
(***************************************************************************)
\* the parser has returned to the caller of parse(), or an exception has left it
Finished == stack = <<>> \/ thrown.kind # "none"

\* this step throws
Throws == thrown.kind = "none" /\ thrown'.kind # "none"

\* what the caller of parse sees of an outcome
Seen(ok, r) == [ok |-> ok, kind |-> r.kind, msg |-> r.msg, position |-> r.position]

\* C23: every ParseError that parse raises on a text of length n has a position p
\* with 0 <= p <= n; p = n only when the step that raised it examined the end of
\* the text (the cursor stood at n when the step began); the cursor is at most n in
\* every state; and the outcome of the run step by step, cursor included, is the
\* outcome of parse(text).
C23_ErrorPosition ==
    /\ [](pos_ \in 0..Len(text))
    /\ [](thrown.kind = "ParseError" => thrown.position \in 0..Len(text))
    /\ [][Throws /\ thrown'.kind = "ParseError" /\ thrown'.position = Len(text)
              => pos_ = Len(text)]_vars
    /\ [](Finished =>
            /\ Seen(thrown.kind = "none", thrown) = Seen(parse(text).ok, parse(text))
            /\ pos_ = parse(text).pos)

\* an array that ends after a comma: "unexpected character" is raised at the end of
\* the text, with the position n
C23_Witness ==
    /\ text = Txt(<<"[", "1", ",">>)
    /\ thrown.kind = "ParseError"
    /\ thrown.msg = "unexpected character"
    /\ thrown.position = Len(text)
    /\ pos_ = Len(text)

\* the functions with an element loop or a character loop
Loops == {"parse_string", "parse_array", "parse_object"}

\* the frame f is inside an iteration of the loop of its function
InLoop(f) ==
    \/ f.fn = "parse_string" /\ f.at \in {"loop", "escape", "hex"}
    \/ f.fn = "parse_array" /\ f.at \in {"after element", "after comma"}
    \/ f.fn = "parse_object" /\ f.at \in {"key", "after key", "after member"}

\* this step ends an iteration of the loop of the innermost function without an
\* exception: the loop goes round to its next iteration, or the function returns
\* from inside the iteration
EndsIteration ==
    /\ stack # <<>>
    /\ thrown.kind = "none" /\ thrown'.kind = "none"
    /\ InLoop(Top)
    /\ \/ stack' = Callers /\ Top.fn # "parse_string"
       \/ /\ Len(stack') >= Len(stack)
          /\ \/ Top.fn = "parse_string" /\ stack'[Len(stack)].at = "loop"
             \/ Top.fn = "parse_array" /\ Top.at = "after comma" /\ Len(stack') > Len(stack)
             \/ Top.fn = "parse_object" /\ Top.at = "after member"
                    /\ stack'[Len(stack)].at = "key"

\* this step is an iteration of one of the digit loops of parse_number
DigitIteration ==
    /\ stack # <<>>
    /\ thrown.kind = "none"
    /\ Top.fn = "parse_number"
    /\ Top.at \in {"digits", "fraction digits", "exponent digits"}
    /\ isdigit(peek(text, pos_))

\* the parser is about to convert the number it has scanned: the step there is
\* defined for either outcome of std::stod
AtStod == stack # <<>> /\ Top.fn = "parse_number" /\ Top.at = "stod"

\* a number of steps that every run on a text of n bytes stays within
StepBudget(n) == 8 * (n + 1)

\* C24: parse terminates on every text: while it has not finished it has a next
\* step, and it takes at most StepBudget(n) steps on a text of n bytes; no step
\* moves the cursor back; every iteration of the element loops of parse_array and
\* parse_object and of the character loops of parse_string and parse_number that
\* ends without an exception has moved the cursor on by at least one byte, and an
\* iteration that an exception ends has raised ParseError or has moved the cursor
\* on.
C24_Terminates ==
    /\ [](steps <= StepBudget(Len(text)))
    /\ [](Finished \/ AtStod \/ ENABLED NextCursor)
    /\ [][/\ pos_' >= pos_
          /\ EndsIteration => pos_' >= Top.head + 1
          /\ DigitIteration => pos_' >= pos_ + 1
          /\ Throws =>
                \/ thrown'.kind = "ParseError"
                \/ \A d \in 1..Len(stack) : InLoop(stack[d]) => pos_' >= stack[d].head + 1
         ]_vars

\* parse has returned from {"a":{"b":[true]}}: the loops of two objects, an array
\* and two strings have run, and the cursor is at the end of the text
C24_Witness ==
    /\ text = Txt(<<"{", "\"", "a", "\"", ":", "{", "\"", "b", "\"", ":",
                    "[", "t", "r", "u", "e", "]", "}", "}">>)
    /\ stack = <<>>
    /\ thrown.kind = "none"
    /\ pos_ = Len(text)

====
